---- MODULE Spec2Model ----
(***************************************************************************)
(* GlobeTrotter itinerary builder: the Firestore `itineraries` collection, *)
(* the builder page's local `itineraries` state (the last snapshot it      *)
(* received) and the handlers of ItineraryBuilderPage.jsx and              *)
(* CreateTripPage.jsx that write day documents.                            *)
(*                                                                         *)
(* Array indices are the zero-based indices of the JavaScript source; a    *)
(* JavaScript array is a TLA+ sequence, so index i is element i + 1.       *)
(***************************************************************************)
EXTENDS Integers, Sequences, FiniteSets, TLC

\* ---------------------------------------------------------------- bounds
MaxTrips    == 1   \* trip documents ever created
MaxCopies   == 1   \* copies copyTrip makes of the viewed trip
MaxUsers    == 2   \* signed-in users
MaxDays     == 3   \* itinerary documents ever created
MaxActs     == 3   \* activity ids generateId() ever returns
MaxDate     == 2   \* calendar dates 1..MaxDate
MaxTime     == 1   \* times of day 0..MaxTime of the trip form's dates
MaxPending  == 1   \* store changes the listener may be behind when a handler runs
MaxRejected == 1   \* writes of one handler call that the backend rejects
MaxLen      == 3   \* longest list of the stand-alone move checks
MaxBudget   == 10  \* largest budget of the budget page checks
MaxSummed   == 2   \* days, and activities per day, of the trip summary checks
MaxEvents   == 2   \* auth state changes not yet delivered to the observer
MaxLogouts  == 1   \* logout calls of one session

Dates   == 1..MaxDate
Times   == 0..MaxTime
TripIds == 1..MaxTrips
Uids    == 1..MaxUsers

\* the :tripId route parameter of the mounted builder page
tripId == 1

\* a field that a document does not have (`undefined` when read)
NoOrder == -1

\* a day document without `day` (the number handleSubmit gives its days)
NoDay == 0

\* a day document without `title` (addNewDay stores non-empty titles only)
NoTitle == ""

\* ------------------------------------------------------- array primitives
Min(a, b) == IF a < b THEN a ELSE b

\* a variant of SpliceRemoved that always takes the first element, as
\* shift() would
SpliceRemovedFirst(arr, start) ==
  IF start < Len(arr) THEN <<arr[1]>> ELSE <<>>

\* Array.prototype.splice(start, 1): the elements removed (none when start
\* is at or past the end)
SpliceRemoved(arr, start) ==
  IF start < Len(arr) THEN <<arr[start + 1]>> ELSE <<>>

\* a variant of SpliceRest that drops the last element, as pop() would
SpliceRestLast(arr, start) ==
  IF start < Len(arr) THEN SubSeq(arr, 1, Len(arr) - 1) ELSE arr

\* Array.prototype.splice(start, 1): the array that is left
SpliceRest(arr, start) ==
  IF start < Len(arr)
    THEN SubSeq(arr, 1, start) \o SubSeq(arr, start + 2, Len(arr))
    ELSE arr

\* a variant of SpliceInsert that inserts after the element at start
SpliceInsertAfter(arr, start, item) ==
  LET k == Min(start + 1, Len(arr))
  IN  SubSeq(arr, 1, k) \o <<item>> \o SubSeq(arr, k + 1, Len(arr))

\* Array.prototype.splice(start, 0, item): start is clamped to the length
SpliceInsert(arr, start, item) ==
  LET k == Min(start, Len(arr))
  IN  SubSeq(arr, 1, k) \o <<item>> \o SubSeq(arr, k + 1, Len(arr))

\* `const [removed] = ...` of an empty array
Undefined == [undefined |-> TRUE]

Destructure1(removedArr) ==
  IF Len(removedArr) > 0 THEN removedArr[1] ELSE Undefined

\* variants of MoveItem: one that inserts without removing, one that
\* exchanges the two positions, one that lowers the destination index of a
\* forward move by one
MoveItemKeepsSource(list, s, d) ==
  SpliceInsert(list, d, Destructure1(SpliceRemoved(list, s)))

MoveItemSwaps(list, s, d) ==
  [k \in DOMAIN list |->
     IF k = s + 1 THEN list[d + 1] ELSE IF k = d + 1 THEN list[s + 1] ELSE list[k]]

MoveItemShiftsDest(list, s, d) ==
  SpliceInsert(SpliceRest(list, s), IF s < d THEN d - 1 ELSE d,
               Destructure1(SpliceRemoved(list, s)))

\* the three lines `Array.from(list); [removed] = copy.splice(s, 1);
\* copy.splice(d, 0, removed)` shared by the day reorder and the same-day
\* activity reorder
MoveItem(list, s, d) ==
  SpliceInsert(SpliceRest(list, s), d, Destructure1(SpliceRemoved(list, s)))

Range(f) == {f[i] : i \in DOMAIN f}

\* all orderings of a finite set, as sequences without repetition
Orderings(S) ==
  {f \in [1..Cardinality(S) -> S] : \A i, j \in 1..Cardinality(S) : i # j => f[i] # f[j]}

\* ------------------------------------------------------------------ state
VARIABLES
  store,        \* itineraries collection: document id -> document data
  trips,        \* trips collection: document id -> document data
  added,        \* number of itinerary documents addDoc has created
  trip,         \* builder page state: null or the trip document's data
  itineraries,  \* builder page state: array of { id, ...data }
  loading,      \* builder page state
  pending,      \* store changes made since the listener last ran
  error,        \* builder page state: '' or a message
  generated,    \* number of ids generateId() has returned
  last,         \* the latest handler or listener call and its inputs
  mv            \* the stand-alone move checks: a list, two indices, the results

vars == <<store, trips, added, trip, itineraries, loading, pending, error, generated,
          last, mv>>

Idle == [pc |-> "idle"]

\* useAuth(): the user signed in to the builder page's session
currentUser == [uid |-> 1]

\* the trip document handleSubmit adds for the user `uid`
TripDoc(uid, isPublic) == [userId |-> uid, isPublic |-> isPublic]

\* the trips collection holding the page's trip, created by its user with
\* the form's initial isPublic: false
OwnTrips == [t \in {tripId} |-> TripDoc(currentUser.uid, FALSE)]

\* useState(null) of `trip`
NoTrip == 0

\* `failed` is the set of documents whose write the call saw rejected
NoCall == [op |-> "none", source |-> 0, destination |-> 0,
           sourceDayId |-> 0, destDayId |-> 0, activityId |-> 0, failed |-> {},
           navigate |-> "", user |-> 0, tripId |-> 0, confirmed |-> FALSE,
           message |-> "", startDate |-> [day |-> 0, time |-> 0],
           endDate |-> [day |-> 0, time |-> 0], formReset |-> FALSE]

Init ==
  /\ store = <<>>
  /\ trips = <<>>
  /\ added = 0
  /\ trip = NoTrip
  /\ itineraries = <<>>
  /\ loading = TRUE
  /\ pending = 0
  /\ error = ""
  /\ generated = 0
  /\ last = NoCall
  /\ mv = Idle

\* ------------------------------------------------------------ the snapshot
\* querySnapshot.docs.map(doc => ({ id: doc.id, ...doc.data() })); a
\* collection snapshot lists its documents by ascending document id
RECURSIVE DocsFrom(_, _)
DocsFrom(st, ids) ==
  IF ids = {} THEN <<>>
  ELSE LET i == CHOOSE x \in ids : \A y \in ids : x <= y
       IN  <<[id |-> i, tripId |-> st[i].tripId, day |-> st[i].day,
              title |-> st[i].title,
              date |-> st[i].date, order |-> st[i].order,
              activities |-> st[i].activities]>>
           \o DocsFrom(st, ids \ {i})

\* .filter(item => item.tripId === tripId)
FilterTrip(docs, t) == SelectSeq(docs, LAMBDA item : item.tripId = t)

\* new Date(x.date) is an Invalid Date (NaN) for a Firestore Timestamp, which
\* is what a JavaScript Date written by handleSubmit is read back as; the
\* 'YYYY-MM-DD' string written by addNewDay parses to its date
IsNaNDate(item) == item.date.kind = "ts"

\* (a, b) => new Date(a.date) - new Date(b.date); sort treats NaN as +0
Compare(a, b) ==
  IF IsNaNDate(a) \/ IsNaNDate(b) THEN 0 ELSE a.date.v - b.date.v

\* Array.prototype.sort is stable: an element goes after every element that
\* does not compare greater than it
RECURSIVE InsertSorted(_, _)
InsertSorted(sorted, x) ==
  IF sorted = <<>> THEN <<x>>
  ELSE IF Compare(sorted[Len(sorted)], x) <= 0 THEN Append(sorted, x)
  ELSE Append(InsertSorted(SubSeq(sorted, 1, Len(sorted) - 1), x),
              sorted[Len(sorted)])

RECURSIVE StableSort(_)
StableSort(docs) ==
  IF docs = <<>> THEN <<>>
  ELSE InsertSorted(StableSort(SubSeq(docs, 1, Len(docs) - 1)), docs[Len(docs)])

\* the comparator is a consistent one unless an Invalid Date (which ties with
\* everything) meets two dates that differ
ConsistentComparator(docs) ==
  (\E i \in DOMAIN docs : IsNaNDate(docs[i]))
    => \A i, j \in DOMAIN docs : Compare(docs[i], docs[j]) = 0

\* the arrays .sort(...) may produce: the stable sort, or an
\* implementation-defined order when the comparator is not consistent
SortOutcomes(docs) ==
  IF ConsistentComparator(docs) THEN {StableSort(docs)}
  ELSE Orderings(Range(docs))

\* the array the itineraries listener computes from the store
SnapshotOutcomes(st) == SortOutcomes(FilterTrip(DocsFrom(st, DOMAIN st), tripId))

\* the documents of the trip
TripDays(st) == {id \in DOMAIN st : st[id].tripId = tripId}

\* a variant of FindDay that reads the day from the store at the time of
\* the call, as a getDoc or a transaction would
FindDayFresh(dayId) ==
  [id |-> dayId, tripId |-> store[dayId].tripId, day |-> store[dayId].day,
   title |-> store[dayId].title,
   date |-> store[dayId].date, order |-> store[dayId].order,
   activities |-> store[dayId].activities]

\* itineraries.find(item => item.id === dayId)
HasDay(dayId) == \E i \in DOMAIN itineraries : itineraries[i].id = dayId
FindDay(dayId) ==
  itineraries[CHOOSE i \in DOMAIN itineraries :
                /\ itineraries[i].id = dayId
                /\ \A j \in DOMAIN itineraries : itineraries[j].id = dayId => i <= j]

LocalDayIds == {itineraries[i].id : i \in DOMAIN itineraries}

\* a variant of ItinerariesSnapshot that resets the error when data arrives
ItinerariesSnapshotClearing ==
  /\ \E data \in SnapshotOutcomes(store) : itineraries' = data
  /\ loading' = FALSE
  /\ pending' = 0
  /\ error' = ""
  /\ last' = [NoCall EXCEPT !.op = "snapshot"]
  /\ UNCHANGED <<store, trips, added, trip, generated, mv>>

\* onSnapshot(collection(db, 'itineraries'), ...) success callback
ItinerariesSnapshot ==
  /\ \E data \in SnapshotOutcomes(store) : itineraries' = data
  /\ loading' = FALSE
  /\ pending' = 0
  /\ last' = [NoCall EXCEPT !.op = "snapshot"]
  /\ UNCHANGED <<store, trips, added, trip, error, generated, mv>>

\* a variant of Permitted that lets every signed-in user in
PermittedAny(tripData) == tripData.userId \in Uids

\* tripData.userId === currentUser.uid
Permitted(tripData) == tripData.userId = currentUser.uid

\* onSnapshot(doc(db, 'trips', tripId), ...) success callback; the `trip`
\* state is represented by the id of the document whose data it holds
TripSnapshot ==
  /\ IF tripId \in DOMAIN trips
       THEN IF Permitted(trips[tripId])
              THEN trip' = tripId /\ UNCHANGED <<error, loading>>
              ELSE /\ error' = "You do not have permission to edit this trip"
                   /\ loading' = FALSE
                   /\ UNCHANGED trip
       ELSE error' = "Trip not found" /\ loading' = FALSE /\ UNCHANGED trip
  /\ last' = [NoCall EXCEPT !.op = "tripSnapshot"]
  /\ UNCHANGED <<store, trips, added, itineraries, pending, generated, mv>>

\* the error callbacks of the two listeners
TripSnapshotError ==
  /\ error' = "Error loading trip"
  /\ loading' = FALSE
  /\ last' = [NoCall EXCEPT !.op = "tripSnapshotError"]
  /\ UNCHANGED <<store, trips, added, trip, itineraries, pending, generated, mv>>

ItinerariesSnapshotError ==
  /\ error' = "Error loading itineraries"
  /\ loading' = FALSE
  /\ last' = [NoCall EXCEPT !.op = "snapshotError"]
  /\ UNCHANGED <<store, trips, added, trip, itineraries, pending, generated, mv>>

\* the page renders the builder, and with it every control that calls a
\* handler, only past its three early returns
BuilderRendered == ~loading /\ error = "" /\ trip # NoTrip


\* ------------------------------------------------------------ store writes
\* the backend's verdicts on the n writes of one call: which it accepts
Verdicts(n) ==
  {a \in SUBSET (1..n) : Cardinality((1..n) \ a) <= MaxRejected}

\* updateDoc(doc(db, 'itineraries', id), { [field]: value }): rejected when
\* the document does not exist, and any write may be rejected (network,
\* permission); `accepted` is the backend's verdict on a document that exists
UpdateDoc(id, field, value, accepted) ==
  [id |-> id, field |-> field, value |-> value,
   ok |-> accepted /\ id \in DOMAIN store]

\* a variant of ApplyUpdates that stores all of the updates or none, as a
\* transaction or a batched write would
ApplyUpdatesAtomic(st, writes) ==
  IF \A i \in DOMAIN writes : writes[i].ok
    THEN [id \in DOMAIN st |->
            LET hits == {i \in DOMAIN writes : writes[i].id = id}
            IN  IF hits = {} THEN st[id]
                ELSE LET w == writes[CHOOSE i \in hits : \A j \in hits : j <= i]
                     IN  IF w.field = "order" THEN [st[id] EXCEPT !.order = w.value]
                         ELSE [st[id] EXCEPT !.activities = w.value]]
    ELSE st

\* a variant of ApplyUpdates in which an update replaces the document, as
\* setDoc without merge would: the fields not written are lost
ApplyUpdatesReplacing(st, writes) ==
  [id \in DOMAIN st |->
     LET hits == {i \in DOMAIN writes : writes[i].id = id /\ writes[i].ok}
     IN  IF hits = {} THEN st[id]
         ELSE LET w == writes[CHOOSE i \in hits : \A j \in hits : j <= i]
              IN  IF w.field = "order"
                    THEN [st[id] EXCEPT !.order = w.value, !.activities = <<>>,
                                        !.day = NoDay, !.title = NoTitle]
                    ELSE [st[id] EXCEPT !.activities = w.value, !.day = NoDay,
                                        !.order = NoOrder, !.title = NoTitle]]

\* the store after a set of independent updateDoc calls
ApplyUpdates(st, writes) ==
  [id \in DOMAIN st |->
     LET hits == {i \in DOMAIN writes : writes[i].id = id /\ writes[i].ok}
     IN  IF hits = {} THEN st[id]
         ELSE LET w == writes[CHOOSE i \in hits : \A j \in hits : j <= i]
              IN  IF w.field = "order" THEN [st[id] EXCEPT !.order = w.value]
                  ELSE [st[id] EXCEPT !.activities = w.value]]

\* a variant of AllOk that awaits the first write only
AllOkFirst(writes) == writes = <<>> \/ writes[1].ok

\* Promise.all(...) resolves only when every write was accepted
AllOk(writes) == \A i \in DOMAIN writes : writes[i].ok

Rejected(writes) == {writes[i].id : i \in {j \in DOMAIN writes : ~writes[j].ok}}

\* the number of activities the documents hold; stale writes can copy an
\* activity without end, so the activity handlers stop at MaxActs
RECURSIVE ActCount(_, _)
ActCount(st, ids) ==
  IF ids = {} THEN 0
  ELSE LET i == CHOOSE x \in ids : TRUE
       IN  Len(st[i].activities) + ActCount(st, ids \ {i})

WithinActs == ActCount(store', DOMAIN store') <= MaxActs

\* the listener's lag after a step, counted up to one past the bound
Lagging ==
  pending' = IF store' = store THEN pending ELSE Min(pending + 1, MaxPending + 1)

\* ---------------------------------------------------------- CreateTripPage
\* a JavaScript Date of the trip form: a calendar day and a time of day.
\* The form starts with new Date() and new Date(Date.now() + 3 days), which
\* carry the time the page was opened, and handleDateChange stores the Date
\* the date picker passes, which carries the picker's time of day
DateTimes == [day : Dates, time : Times]

\* a < b and a <= b on Dates compare the instants
Before(a, b) == a.day < b.day \/ (a.day = b.day /\ a.time < b.time)
NotAfter(a, b) == a = b \/ Before(a, b)

\* addDays(curr, 1) keeps the time of day
AddDay(curr) == [curr EXCEPT !.day = @ + 1]

\* getDateRangeInclusive(start, end): while (curr <= end) push curr, add a day
RECURSIVE getDateRangeInclusive(_, _)
getDateRangeInclusive(start, end) ==
  IF NotAfter(start, end)
    THEN <<start>> \o getDateRangeInclusive(AddDay(start), end)
    ELSE <<>>

\* trip names as typed, character by character
TripNames == {<<>>, <<" ", " ", " ">>, <<"a", "b">>, <<"a", "b", "c">>}

\* tripName.trim() of these names
Trim(tripName) == SelectSeq(tripName, LAMBDA c : c # " ")

\* the message of the first validation that fails, '' when none does
Validation(formData) ==
  IF Trim(formData.tripName) = <<>> THEN "Trip name is required"
  ELSE IF Len(formData.tripName) < 3
    THEN "Trip name must be at least 3 characters long"
  ELSE IF ~Before(formData.startDate, formData.endDate)
    THEN "End date must be after start date"
  ELSE ""

\* the contents of the trip form
TripForms ==
  [tripName : TripNames, startDate : DateTimes, endDate : DateTimes,
   isPublic : BOOLEAN]

\* the itinerary document handleSubmit adds for dateRange[i]: no `order`
SubmittedDay(t, i, date) ==
  [tripId |-> t, day |-> i, title |-> NoTitle, date |-> [kind |-> "ts", v |-> date],
   order |-> NoOrder, activities |-> <<>>]

\* addDoc gives each new document an id no document had before: trip ids
\* and itinerary ids are handed out in sequence
NewTripId == Cardinality(DOMAIN trips) + 1
NewDayId(k) == added + k

\* handleSubmit, the form being submitted while fewer than MaxTrips trips
\* exist: a form that fails a validation sets the page's message and writes
\* nothing; otherwise the trip document, then one itinerary document per
\* date of the range, each addDoc awaited before the next; the first
\* rejected addDoc ends the handler (`created` day documents were added)
handleSubmit ==
  /\ NewTripId \in TripIds
  /\ \E formData \in TripForms, tripAdded \in BOOLEAN, uid \in Uids :
       IF Validation(formData) # ""
         THEN /\ UNCHANGED <<store, trips, added>>
              /\ last' = [NoCall EXCEPT !.op = "handleSubmit",
                                        !.message = Validation(formData),
                                        !.startDate = formData.startDate,
                                        !.endDate = formData.endDate]
         ELSE LET dateRange == getDateRangeInclusive(formData.startDate,
                                                     formData.endDate)
              IN  /\ added + Len(dateRange) <= MaxDays
                  /\ \E created \in 0..Len(dateRange) :
                       /\ tripAdded \/ created = 0
                       /\ store' = [id \in DOMAIN store \cup
                                              {NewDayId(i) : i \in 1..created} |->
                                      IF id \in DOMAIN store THEN store[id]
                                      ELSE SubmittedDay(NewTripId, id - added,
                                                        dateRange[id - added].day)]
                       /\ added' = added + created
                       /\ trips' = IF tripAdded
                                      THEN [t \in DOMAIN trips \cup {NewTripId} |->
                                              IF t \in DOMAIN trips THEN trips[t]
                                              ELSE TripDoc(uid, formData.isPublic)]
                                      ELSE trips
                       /\ LET done == tripAdded /\ created = Len(dateRange)
                          IN  last' = [NoCall EXCEPT
                                         !.op = "handleSubmit",
                                         !.user = uid,
                                         !.startDate = formData.startDate,
                                         !.endDate = formData.endDate,
                                         !.navigate = IF done THEN "/trip/:id/builder"
                                                      ELSE "",
                                         !.message = IF done THEN ""
                                                     ELSE "Failed to create trip. Please try again.",
                                         !.failed = IF done THEN {}
                                                    ELSE IF tripAdded
                                                      THEN {NewDayId(created + 1)}
                                                      ELSE {NewTripId}]
  /\ Lagging
  /\ UNCHANGED <<trip, itineraries, loading, error, generated, mv>>

\* ------------------------------------------------------ ItineraryBuilderPage
\* a variant of DayOrderUpdates that writes one-based positions
DayOrderUpdatesOneBased(reorderedItineraries, accepted) ==
  [index \in 1..Len(reorderedItineraries) |->
     UpdateDoc(reorderedItineraries[index].id, "order", index,
               index \in accepted)]

\* reorderedItineraries.map((item, index) =>
\*   updateDoc(doc(db, 'itineraries', item.id), { order: index })); the
\* JavaScript index of element `index` is index - 1
DayOrderUpdates(reorderedItineraries, accepted) ==
  [index \in 1..Len(reorderedItineraries) |->
     UpdateDoc(reorderedItineraries[index].id, "order", index - 1,
               index \in accepted)]

\* handleDragEnd, type 'day': source.index and destination.index are indices
\* of the rendered list, which is `itineraries`
handleDragEndDay ==
  /\ BuilderRendered
  /\ pending <= MaxPending
  /\ Len(itineraries) > 0
  /\ \E s, d \in 0..(Len(itineraries) - 1), accepted \in Verdicts(Len(itineraries)) :
       LET reorderedItineraries == MoveItem(itineraries, s, d)
           updates == DayOrderUpdates(reorderedItineraries, accepted)
       IN  /\ store' = ApplyUpdates(store, updates)
           /\ error' = IF AllOk(updates) THEN error ELSE "Error reordering days"
           /\ last' = [NoCall EXCEPT !.op = "dragDay", !.source = s,
                                     !.destination = d,
                                     !.failed = Rejected(updates)]
  /\ Lagging
  /\ UNCHANGED <<trips, added, trip, itineraries, loading, generated, mv>>

\* a variant of handleDragEndSameDay that also applies the move to the local
\* list, as an optimistic update would
handleDragEndSameDayOptimistic ==
  /\ BuilderRendered
  /\ pending <= MaxPending
  /\ \E sourceDayId \in LocalDayIds :
       LET day == FindDay(sourceDayId)
       IN  /\ Len(day.activities) > 0
           /\ \E s, d \in 0..(Len(day.activities) - 1), accepted \in Verdicts(1) :
                LET reorderedActivities == MoveItem(day.activities, s, d)
                    updates == <<UpdateDoc(sourceDayId, "activities",
                                           reorderedActivities, 1 \in accepted)>>
                IN  /\ store' = ApplyUpdates(store, updates)
                    /\ itineraries' =
                         [i \in DOMAIN itineraries |->
                            IF itineraries[i].id = sourceDayId
                              THEN [itineraries[i] EXCEPT
                                      !.activities = reorderedActivities]
                              ELSE itineraries[i]]
                    /\ error' = IF AllOk(updates) THEN error
                                ELSE "Error reordering activities"
                    /\ last' = [NoCall EXCEPT !.op = "dragSameDay", !.source = s,
                                  !.destination = d, !.sourceDayId = sourceDayId,
                                  !.destDayId = sourceDayId,
                                  !.failed = Rejected(updates)]
  /\ WithinActs
  /\ Lagging
  /\ UNCHANGED <<trips, added, trip, loading, generated, mv>>

\* handleDragEnd, type 'activity', dropped in the day it was dragged from
handleDragEndSameDay ==
  /\ BuilderRendered
  /\ pending <= MaxPending
  /\ \E sourceDayId \in LocalDayIds :
       LET day == FindDay(sourceDayId)
       IN  /\ Len(day.activities) > 0
           /\ \E s, d \in 0..(Len(day.activities) - 1), accepted \in Verdicts(1) :
                LET reorderedActivities == MoveItem(day.activities, s, d)
                    updates == <<UpdateDoc(sourceDayId, "activities",
                                           reorderedActivities, 1 \in accepted)>>
                IN  /\ store' = ApplyUpdates(store, updates)
                    /\ error' = IF AllOk(updates) THEN error
                                ELSE "Error reordering activities"
                    /\ last' = [NoCall EXCEPT !.op = "dragSameDay", !.source = s,
                                  !.destination = d, !.sourceDayId = sourceDayId,
                                  !.destDayId = sourceDayId,
                                  !.failed = Rejected(updates)]
  /\ WithinActs
  /\ Lagging
  /\ UNCHANGED <<trips, added, trip, itineraries, loading, generated, mv>>

\* a variant of CrossDayMove that leaves the source list as it was
CrossDayCopy(sourceList, destList, s, d) ==
  [sourceActivities |-> sourceList,
   destActivities |->
     SpliceInsert(destList, d, Destructure1(SpliceRemoved(sourceList, s)))]

\* a variant of CrossDayMove that does not insert what it removed
CrossDayDrop(sourceList, destList, s, d) ==
  [sourceActivities |-> SpliceRest(sourceList, s),
   destActivities |-> destList]

\* `[movedActivity] = sourceActivities.splice(s, 1);
\* destActivities.splice(d, 0, movedActivity)` on copies of the two lists
CrossDayMove(sourceList, destList, s, d) ==
  [sourceActivities |-> SpliceRest(sourceList, s),
   destActivities |->
     SpliceInsert(destList, d, Destructure1(SpliceRemoved(sourceList, s)))]

\* handleDragEnd, type 'activity', dropped in another day: destination.index
\* may be the end of the destination list
handleDragEndCrossDay ==
  /\ BuilderRendered
  /\ pending <= MaxPending
  /\ \E sourceDayId, destDayId \in LocalDayIds :
       /\ sourceDayId # destDayId
       /\ LET sourceDay == FindDay(sourceDayId)
              destDay == FindDay(destDayId)
          IN  /\ Len(sourceDay.activities) > 0
              /\ \E s \in 0..(Len(sourceDay.activities) - 1),
                    d \in 0..Len(destDay.activities),
                    accepted \in Verdicts(2) :
                   LET moved == CrossDayMove(sourceDay.activities,
                                             destDay.activities, s, d)
                       updates ==
                         <<UpdateDoc(sourceDayId, "activities",
                                     moved.sourceActivities, 1 \in accepted),
                           UpdateDoc(destDayId, "activities",
                                     moved.destActivities, 2 \in accepted)>>
                   IN  /\ store' = ApplyUpdates(store, updates)
                       /\ error' = IF AllOk(updates) THEN error
                                   ELSE "Error moving activity"
                       /\ last' = [NoCall EXCEPT !.op = "dragCrossDay",
                                     !.source = s, !.destination = d,
                                     !.sourceDayId = sourceDayId,
                                     !.destDayId = destDayId,
                                     !.failed = Rejected(updates)]
  /\ WithinActs
  /\ Lagging
  /\ UNCHANGED <<trips, added, trip, itineraries, loading, generated, mv>>

\* result.destination of a drop outside every droppable
Null == [null |-> TRUE]

\* a variant of DragEndUpdates without the first line of handleDragEnd: a
\* drop without destination is taken as a drop at the start of the day list
DragEndUpdatesDropsAtStart(result, accepted) ==
  IF result.type = "day"
    THEN DayOrderUpdates(MoveItem(itineraries, result.source.index, 0), accepted)
    ELSE <<>>

\* handleDragEnd(result): the updateDoc calls it issues, `accepted` being the
\* backend's verdicts on them in the order they are issued
DragEndUpdates(result, accepted) ==
  IF result.destination = Null THEN <<>>
  ELSE IF result.type = "day"
    THEN DayOrderUpdates(MoveItem(itineraries, result.source.index,
                                  result.destination.index), accepted)
  ELSE IF result.type = "activity"
    THEN LET sourceDayId == result.source.droppableId
             destDayId == result.destination.droppableId
         IN  IF sourceDayId = destDayId
               THEN IF ~HasDay(sourceDayId) THEN <<>>
                    ELSE <<UpdateDoc(sourceDayId, "activities",
                                     MoveItem(FindDay(sourceDayId).activities,
                                              result.source.index,
                                              result.destination.index),
                                     1 \in accepted)>>
               ELSE IF ~HasDay(sourceDayId) \/ ~HasDay(destDayId) THEN <<>>
                    ELSE LET moved == CrossDayMove(FindDay(sourceDayId).activities,
                                                   FindDay(destDayId).activities,
                                                   result.source.index,
                                                   result.destination.index)
                         IN  <<UpdateDoc(sourceDayId, "activities",
                                         moved.sourceActivities, 1 \in accepted),
                               UpdateDoc(destDayId, "activities",
                                         moved.destActivities, 2 \in accepted)>>
  ELSE <<>>

\* the droppable of the day list
DaysDroppable == 0

\* what a drag can pick up: a rendered day, or a rendered activity of a day
DragSources ==
  [type : {"day"}, droppableId : {DaysDroppable},
   index : 0..(Len(itineraries) - 1)]
  \cup UNION {[type : {"activity"}, droppableId : {dayId},
               index : 0..(Len(FindDay(dayId).activities) - 1)] :
                  dayId \in LocalDayIds}

\* handleDragEnd of a drop outside every droppable: result.destination is
\* null
handleDragEndCancelled ==
  /\ BuilderRendered
  /\ pending <= MaxPending
  /\ \E from \in DragSources, accepted \in Verdicts(Len(itineraries)) :
       LET result == [type |-> from.type,
                      source |-> [droppableId |-> from.droppableId,
                                  index |-> from.index],
                      destination |-> Null]
           updates == DragEndUpdates(result, accepted)
       IN  /\ store' = ApplyUpdates(store, updates)
           /\ error' = IF AllOk(updates) THEN error ELSE "Error reordering days"
           /\ last' = [NoCall EXCEPT !.op = "dragCancelled",
                                     !.source = from.index,
                                     !.sourceDayId = from.droppableId,
                                     !.failed = Rejected(updates)]
  /\ Lagging
  /\ UNCHANGED <<trips, added, trip, itineraries, loading, generated, mv>>

\* the contents of the add-day form; '' is an empty input
EmptyDate == 0
DayForms == [date : Dates \cup {EmptyDate}, title : {"", "t"}]

\* the itinerary document addNewDay adds: its order is the length of the
\* local list
AddedDay(newDay) ==
  [tripId |-> tripId, day |-> NoDay, title |-> newDay.title,
   date |-> [kind |-> "str", v |-> newDay.date],
   order |-> Len(itineraries), activities |-> <<>>]

\* the try block of addNewDay: the form goes to the store as it is; an
\* accepted addDoc is followed by setNewDay({ date: '', ... }) and
\* setShowAddDay(false), a rejected one by setError
AddDayWrite(newDay) ==
  \E accepted \in BOOLEAN :
    IF accepted
      THEN /\ added < MaxDays
           /\ added' = added + 1
           /\ store' = [i \in DOMAIN store \cup {NewDayId(1)} |->
                          IF i = NewDayId(1) THEN AddedDay(newDay)
                          ELSE store[i]]
           /\ UNCHANGED error
           /\ last' = [NoCall EXCEPT !.op = "addNewDay",
                                     !.destDayId = NewDayId(1),
                                     !.formReset = TRUE]
      ELSE /\ error' = "Error adding day"
           /\ UNCHANGED <<store, added>>
           /\ last' = [NoCall EXCEPT !.op = "addNewDay",
                                     !.failed = {NewDayId(1)}]

\* addNewDay without its first line
AddNewDayUnchecked(newDay) == AddDayWrite(newDay)

\* addNewDay with the form newDay: if (!newDay.date || !newDay.title) return
AddNewDayWith(newDay) ==
  IF newDay.date = EmptyDate \/ newDay.title = ""
    THEN /\ UNCHANGED <<store, added, error>>
         /\ last' = [NoCall EXCEPT !.op = "addNewDay"]
    ELSE AddDayWrite(newDay)

\* addNewDay
addNewDay ==
  /\ BuilderRendered
  /\ pending <= MaxPending
  /\ \E newDay \in DayForms : AddNewDayWith(newDay)
  /\ Lagging
  /\ UNCHANGED <<trips, trip, itineraries, loading, generated, mv>>

\* deleteDay(day.id) of a rendered day; deleting a document that is already
\* gone succeeds
deleteDay ==
  /\ BuilderRendered
  /\ pending <= MaxPending
  /\ \E dayId \in LocalDayIds, deleted \in BOOLEAN :
       /\ IF deleted
            THEN /\ store' = [i \in DOMAIN store \ {dayId} |-> store[i]]
                 /\ UNCHANGED error
            ELSE /\ error' = "Error deleting day"
                 /\ UNCHANGED store
       /\ last' = [NoCall EXCEPT !.op = "deleteDay", !.sourceDayId = dayId,
                                 !.failed = IF deleted THEN {} ELSE {dayId}]
  /\ Lagging
  /\ UNCHANGED <<trips, added, trip, itineraries, loading, generated, mv>>

\* the contents of the add-activity form: { ...newActivity } with
\* cost: parseFloat(newActivity.cost) || 0
ActivityForms ==
  {[name |-> "", startTime |-> "09:00", cost |-> 0, category |-> "activity"],
   [name |-> "a", startTime |-> "", cost |-> 0, category |-> "activity"],
   [name |-> "a", startTime |-> "09:00", cost |-> 10, category |-> "food"]}

\* the activity addNewActivity builds; generateId() returns a fresh id
ActivityData(newActivity) ==
  [id |-> generated + 1, name |-> newActivity.name,
   startTime |-> newActivity.startTime, cost |-> newActivity.cost,
   category |-> newActivity.category]

\* addNewActivity(dayId): the day's local activities with the new one
\* appended, written as a whole
AddNewActivityTo(dayId, newActivity) ==
  \E accepted \in Verdicts(1) :
    IF newActivity.name = "" \/ newActivity.startTime = ""
      THEN /\ UNCHANGED <<store, error, generated>>
           /\ last' = [NoCall EXCEPT !.op = "addNewActivity"]
      ELSE IF ~HasDay(dayId)
        THEN /\ UNCHANGED <<store, error, generated>>
             /\ last' = [NoCall EXCEPT !.op = "addNewActivity",
                                       !.sourceDayId = dayId]
        ELSE /\ generated < MaxActs
             /\ generated' = generated + 1
             /\ LET day == FindDay(dayId)
                    updatedActivities == day.activities \o <<ActivityData(newActivity)>>
                    updates == <<UpdateDoc(dayId, "activities", updatedActivities,
                                           1 \in accepted)>>
                IN  /\ store' = ApplyUpdates(store, updates)
                    /\ error' = IF AllOk(updates) THEN error
                                ELSE "Error adding activity"
                    /\ last' = [NoCall EXCEPT !.op = "addNewActivity",
                                  !.sourceDayId = dayId,
                                  !.failed = Rejected(updates),
                                  !.formReset = AllOk(updates)]

\* the add-activity modal opened from a rendered day and submitted before
\* the next snapshot
addNewActivity ==
  /\ BuilderRendered
  /\ pending <= MaxPending
  /\ \E dayId \in LocalDayIds, newActivity \in ActivityForms :
       AddNewActivityTo(dayId, newActivity)
  /\ WithinActs
  /\ Lagging
  /\ UNCHANGED <<trips, added, trip, itineraries, loading, mv>>

\* addNewActivity(dayId) run by another session of the builder page, whose
\* snapshot is current: the stored list with one more activity
remoteAddNewActivity ==
  /\ generated < MaxActs
  /\ generated' = generated + 1
  /\ \E dayId \in TripDays(store), newActivity \in ActivityForms :
       /\ newActivity.name # ""
       /\ newActivity.startTime # ""
       /\ store' = [store EXCEPT ![dayId].activities =
                                  @ \o <<ActivityData(newActivity)>>]
       /\ last' = [NoCall EXCEPT !.op = "remoteAddNewActivity",
                                 !.sourceDayId = dayId]
  /\ WithinActs
  /\ Lagging
  /\ UNCHANGED <<trips, added, trip, itineraries, loading, error, mv>>

\* the `updates` objects of the edit form's onChange handlers: a name typed
\* in, and a cost field emptied (parseFloat('') || 0)
ActivityUpdates == {[name |-> "b"], [cost |-> 0]}

\* { ...activity, ...updates }
MergeUpdates(activity, updates) ==
  [f \in DOMAIN activity \cup DOMAIN updates |->
     IF f \in DOMAIN updates THEN updates[f] ELSE activity[f]]

\* a variant of MapUpdated that merges the updates into every activity
MapUpdatedAll(activities, activityId, updates) ==
  [i \in DOMAIN activities |-> MergeUpdates(activities[i], updates)]

\* day.activities.map(activity =>
\*   activity.id === activityId ? { ...activity, ...updates } : activity)
MapUpdated(activities, activityId, updates) ==
  [i \in DOMAIN activities |->
     IF activities[i].id = activityId
       THEN MergeUpdates(activities[i], updates)
       ELSE activities[i]]

\* day.activities.filter(activity => activity.id !== activityId)
FilterDeleted(activities, activityId) ==
  SelectSeq(activities, LAMBDA activity : activity.id # activityId)

\* the (day, activity) pairs whose edit and delete controls are rendered
RenderedActivities ==
  {p \in LocalDayIds \X (1..MaxActs) :
     \E i \in DOMAIN FindDay(p[1]).activities : FindDay(p[1]).activities[i].id = p[2]}

\* updateActivity(dayId, activityId, updates)
updateActivity ==
  /\ BuilderRendered
  /\ pending <= MaxPending
  /\ \E p \in RenderedActivities, updates \in ActivityUpdates, accepted \in Verdicts(1) :
       LET dayId == p[1]
           activityId == p[2]
       IN  IF ~HasDay(dayId)
             THEN /\ UNCHANGED <<store, error>>
                  /\ last' = [NoCall EXCEPT !.op = "updateActivity"]
             ELSE LET day == FindDay(dayId)
                      updatedActivities == MapUpdated(day.activities, activityId, updates)
                      writes == <<UpdateDoc(dayId, "activities", updatedActivities,
                                            1 \in accepted)>>
                  IN  /\ store' = ApplyUpdates(store, writes)
                      /\ error' = IF AllOk(writes) THEN error
                                  ELSE "Error updating activity"
                      /\ last' = [NoCall EXCEPT !.op = "updateActivity",
                                    !.sourceDayId = dayId,
                                    !.activityId = activityId,
                                    !.failed = Rejected(writes)]
  /\ WithinActs
  /\ Lagging
  /\ UNCHANGED <<trips, added, trip, itineraries, loading, generated, mv>>

\* deleteActivity(dayId, activityId)
deleteActivity ==
  /\ BuilderRendered
  /\ pending <= MaxPending
  /\ \E p \in RenderedActivities, accepted \in Verdicts(1) :
       LET dayId == p[1]
           activityId == p[2]
       IN  IF ~HasDay(dayId)
             THEN /\ UNCHANGED <<store, error>>
                  /\ last' = [NoCall EXCEPT !.op = "deleteActivity"]
             ELSE LET day == FindDay(dayId)
                      updatedActivities == FilterDeleted(day.activities, activityId)
                      writes == <<UpdateDoc(dayId, "activities", updatedActivities,
                                            1 \in accepted)>>
                  IN  /\ store' = ApplyUpdates(store, writes)
                      /\ error' = IF AllOk(writes) THEN error
                                  ELSE "Error deleting activity"
                      /\ last' = [NoCall EXCEPT !.op = "deleteActivity",
                                    !.sourceDayId = dayId,
                                    !.activityId = activityId,
                                    !.failed = Rejected(writes)]
  /\ WithinActs
  /\ Lagging
  /\ UNCHANGED <<trips, added, trip, itineraries, loading, generated, mv>>

\* ------------------------------------------------------- the specifications
\* the trip's day documents from the creation of the trip on
Next ==
  \/ handleSubmit
  \/ TripSnapshot
  \/ ItinerariesSnapshot
  \/ handleDragEndDay
  \/ addNewDay
  \/ deleteDay

Spec == Init /\ [][Next]_vars

\* the activities of a trip's days: the builder page of a trip just created
\* for the dates 1..MaxDate, after its first snapshots
InitAct ==
  /\ store = [id \in 1..MaxDate |-> SubmittedDay(tripId, id, id)]
  /\ trips = OwnTrips
  /\ added = MaxDate
  /\ trip = tripId
  /\ itineraries \in SnapshotOutcomes(store)
  /\ loading = FALSE
  /\ pending = 0
  /\ error = ""
  /\ generated = 0
  /\ last = [NoCall EXCEPT !.op = "snapshot"]
  /\ mv = Idle

NextAct ==
  \/ ItinerariesSnapshot
  \/ addNewActivity
  \/ handleDragEndSameDay
  \/ handleDragEndCrossDay

SpecAct == InitAct /\ [][NextAct]_vars

\* every branch of handleDragEnd, on the builder page of a trip created for
\* the dates 1..MaxDate to each of whose days addNewActivity has added one
\* activity (day 1 first), after the snapshot that shows them
FilledActivity(n) ==
  [id |-> n, name |-> "a", startTime |-> "09:00",
   cost |-> IF n = 1 THEN 10 ELSE 25,
   category |-> IF n = 1 THEN "food" ELSE "activity"]

FilledDay(id) ==
  [SubmittedDay(tripId, id, id) EXCEPT !.activities = <<FilledActivity(id)>>]

InitDrag ==
  /\ store = [id \in 1..MaxDate |-> FilledDay(id)]
  /\ trips = OwnTrips
  /\ added = MaxDate
  /\ trip = tripId
  /\ itineraries \in SnapshotOutcomes(store)
  /\ loading = FALSE
  /\ pending = 0
  /\ error = ""
  /\ generated = MaxDate
  /\ last = [NoCall EXCEPT !.op = "snapshot"]
  /\ mv = Idle

NextDrag ==
  \/ ItinerariesSnapshot
  \/ handleDragEndDay
  \/ handleDragEndSameDay
  \/ handleDragEndCrossDay
  \/ handleDragEndCancelled

SpecDrag == InitDrag /\ [][NextDrag]_vars

\* the activity moves of one session while another session adds activities
NextRemote ==
  \/ ItinerariesSnapshot
  \/ handleDragEndSameDay
  \/ handleDragEndCrossDay
  \/ remoteAddNewActivity

SpecRemote == InitDrag /\ [][NextRemote]_vars

\* adding, editing and deleting the activities of a trip's days
NextEdit ==
  \/ ItinerariesSnapshot
  \/ addNewActivity
  \/ updateActivity
  \/ deleteActivity

SpecEdit == InitAct /\ [][NextEdit]_vars

\* the three lines of the single-list move on their own: every list of up
\* to MaxLen items (a day or an activity each, repeats allowed) and every
\* pair of valid indices, moved and then moved back
RECURSIVE ListsUpTo(_)
ListsUpTo(n) ==
  IF n = 0 THEN {<<>>}
  ELSE ListsUpTo(n - 1) \cup [1..n -> 1..MaxLen]

InitMove ==
  /\ store = <<>>
  /\ trips = <<>>
  /\ added = 0
  /\ trip = NoTrip
  /\ itineraries = <<>>
  /\ loading = TRUE
  /\ pending = 0
  /\ error = ""
  /\ generated = 0
  /\ last = NoCall
  /\ \E list \in ListsUpTo(MaxLen) \ {<<>>} :
       \E s, d \in 0..(Len(list) - 1) :
         mv = [pc |-> "start", list |-> list, s |-> s, d |-> d, cur |-> list]

MoveThere ==
  /\ mv.pc = "start"
  /\ mv' = [mv EXCEPT !.pc = "moved", !.cur = MoveItem(mv.list, mv.s, mv.d)]
  /\ UNCHANGED <<store, trips, added, trip, itineraries, loading, pending, error,
                 generated, last>>

MoveBack ==
  /\ mv.pc = "moved"
  /\ mv' = [mv EXCEPT !.pc = "back", !.cur = MoveItem(mv.cur, mv.d, mv.s)]
  /\ UNCHANGED <<store, trips, added, trip, itineraries, loading, pending, error,
                 generated, last>>

NextMove ==
  \/ MoveThere
  \/ MoveBack

SpecMove == InitMove /\ [][NextMove]_vars

\* handleDragEnd given indices that need not lie in the lists it reads (the
\* handler reads the latest `itineraries`, the indices are those of the
\* lists as they were rendered when the drag began). A day or an activity
\* is { id }; every write is accepted by the backend.
RECURSIVE ItemListsUpTo(_)
ItemListsUpTo(n) ==
  IF n = 0 THEN {<<>>}
  ELSE ItemListsUpTo(n - 1) \cup [1..n -> {[id |-> k] : k \in 1..MaxLen}]

HasUndefined(list) == \E i \in DOMAIN list : list[i] = Undefined

\* the elements of a list before its first undefined one
BeforeUndefined(list) ==
  SubSeq(list, 1,
         IF HasUndefined(list)
           THEN (CHOOSE i \in DOMAIN list :
                   /\ list[i] = Undefined
                   /\ \A j \in DOMAIN list : list[j] = Undefined => i <= j) - 1
           ELSE Len(list))

\* what one call issues and whether it sets the error state. Type 'day':
\* `item.id` of an undefined element throws inside map, outside the try, after
\* the updateDoc calls for the elements before it. Type 'activity':
\* `rejectsUndefined` tells whether updateDoc throws on an array holding
\* undefined (it does unless the Firestore instance ignores undefined
\* values); the throw is inside the try, after any updateDoc issued before it
DropOutcome(type, list, dest, s, d, rejectsUndefined) ==
  IF type = "day"
    THEN LET reorderedItineraries == MoveItem(list, s, d)
             written == BeforeUndefined(reorderedItineraries)
         IN  [writes |-> [index \in DOMAIN written |->
                            [doc |-> written[index].id, value |-> index - 1]],
              signalled |-> FALSE]
  ELSE IF type = "sameDay"
    THEN LET reorderedActivities == MoveItem(list, s, d)
         IN  IF HasUndefined(reorderedActivities) /\ rejectsUndefined
               THEN [writes |-> <<>>, signalled |-> TRUE]
               ELSE [writes |-> <<[doc |-> 1, value |-> reorderedActivities]>>,
                     signalled |-> FALSE]
  ELSE LET moved == CrossDayMove(list, dest, s, d)
           sourceWrite == [doc |-> 1, value |-> moved.sourceActivities]
           destWrite == [doc |-> 2, value |-> moved.destActivities]
       IN  IF HasUndefined(moved.destActivities) /\ rejectsUndefined
             THEN [writes |-> <<sourceWrite>>, signalled |-> TRUE]
             ELSE [writes |-> <<sourceWrite, destWrite>>, signalled |-> FALSE]

InitRange ==
  /\ store = <<>>
  /\ trips = <<>>
  /\ added = 0
  /\ trip = NoTrip
  /\ itineraries = <<>>
  /\ loading = TRUE
  /\ pending = 0
  /\ error = ""
  /\ generated = 0
  /\ last = NoCall
  /\ \E type \in {"day", "sameDay", "crossDay"}, list \in ItemListsUpTo(MaxLen),
        dest \in ItemListsUpTo(1), s, d \in 0..(MaxLen + 1) :
       /\ type # "crossDay" => dest = <<>>
       /\ mv = [pc |-> "start", type |-> type, list |-> list, dest |-> dest,
                s |-> s, d |-> d, writes |-> <<>>, signalled |-> FALSE]

handleDragEndAnyIndex ==
  /\ mv.pc = "start"
  /\ \E rejectsUndefined \in BOOLEAN :
       LET outcome == DropOutcome(mv.type, mv.list, mv.dest, mv.s, mv.d,
                                  rejectsUndefined)
       IN  mv' = [mv EXCEPT !.pc = "dropped", !.writes = outcome.writes,
                            !.signalled = outcome.signalled]
  /\ UNCHANGED <<store, trips, added, trip, itineraries, loading, pending, error,
                 generated, last>>

SpecRange == InitRange /\ [][handleDragEndAnyIndex]_vars

\* ---------------------------------------------------------------- BudgetPage
\* `percentage >= p` with percentage = budget > 0 ? (totalCost / budget) *
\* 100 : 0, for p > 0; amounts are whole numbers, for which the floating-
\* point quotient decides the thresholds 80 and 100 as the exact one does
PercentageAtLeast(totalCost, budget, p) ==
  IF budget > 0 THEN totalCost * 100 >= p * budget ELSE 0 >= p

\* a variant of getBudgetStatus that compares with > instead of >=
getBudgetStatusStrict(budget, totalCost) ==
  IF budget > 0 /\ totalCost * 100 > 100 * budget THEN "over"
  ELSE IF budget > 0 /\ totalCost * 100 > 80 * budget THEN "warning"
  ELSE "good"

\* getBudgetStatus().status
getBudgetStatus(budget, totalCost) ==
  IF PercentageAtLeast(totalCost, budget, 100) THEN "over"
  ELSE IF PercentageAtLeast(totalCost, budget, 80) THEN "warning"
  ELSE "good"

\* the budget page of a trip with a budget (0 when none is set, below 0 when
\* a negative amount was entered) and a total cost
InitBudget ==
  /\ store = <<>>
  /\ trips = <<>>
  /\ added = 0
  /\ trip = NoTrip
  /\ itineraries = <<>>
  /\ loading = TRUE
  /\ pending = 0
  /\ error = ""
  /\ generated = 0
  /\ last = NoCall
  /\ \E budget \in (-1)..MaxBudget, totalCost \in 0..(MaxBudget + 2) :
       mv = [pc |-> "start", budget |-> budget, totalCost |-> totalCost,
             status |-> "", remaining |-> 0]

\* the render of the budget overview: budgetStatus and the Remaining figure
renderBudget ==
  /\ mv.pc = "start"
  /\ mv' = [mv EXCEPT !.pc = "shown",
                      !.status = getBudgetStatus(mv.budget, mv.totalCost),
                      !.remaining = mv.budget - mv.totalCost]
  /\ UNCHANGED <<store, trips, added, trip, itineraries, loading, pending, error,
                 generated, last>>

SpecBudget == InitBudget /\ [][renderBudget]_vars

\* ------------------------------------------------------------- trip summary
\* `day.activities || []`
ActivitiesOrEmpty(day) ==
  IF "activities" \in DOMAIN day THEN day.activities ELSE <<>>

\* `activity.cost || 0`; Number(...) of a number is that number
CostOrZero(activity) ==
  IF "cost" \in DOMAIN activity THEN activity.cost ELSE 0

\* a variant of DayCost that takes the first activity only
DayCostFirstOnly(day) ==
  IF ActivitiesOrEmpty(day) = <<>> THEN 0
  ELSE CostOrZero(ActivitiesOrEmpty(day)[1])

\* (day.activities || []).reduce((sum, activity) => sum + ..., 0)
RECURSIVE ReduceCost(_, _)
ReduceCost(activities, sum) ==
  IF activities = <<>> THEN sum
  ELSE ReduceCost(Tail(activities), sum + CostOrZero(Head(activities)))

DayCost(day) == ReduceCost(ActivitiesOrEmpty(day), 0)

\* calculateTotalCost(itineraries): itineraries.reduce((total, day) => total
\* + dayCost, 0)
RECURSIVE ReduceDays(_, _)
ReduceDays(days, total) ==
  IF days = <<>> THEN total
  ELSE ReduceDays(Tail(days), total + DayCost(Head(days)))

calculateTotalCost(days) == ReduceDays(days, 0)

\* getTotalCost of the itinerary view page: the same two reductions, inline
RECURSIVE getTotalCost(_)
getTotalCost(days) ==
  IF days = <<>> THEN 0
  ELSE LET front == SubSeq(days, 1, Len(days) - 1)
       IN  getTotalCost(front) + ReduceCost(ActivitiesOrEmpty(days[Len(days)]), 0)

\* getActivityCount
RECURSIVE getActivityCount(_)
getActivityCount(days) ==
  IF days = <<>> THEN 0
  ELSE getActivityCount(Tail(days)) + Len(ActivitiesOrEmpty(Head(days)))

\* a variant of CategoryOf with the default label of getCostBreakdown
CategoryOrOther(activity) ==
  IF "category" \in DOMAIN activity THEN activity.category ELSE "other"

\* `activity.category || 'activity'`
CategoryOf(activity) ==
  IF "category" \in DOMAIN activity THEN activity.category ELSE "activity"

\* categories[category] = (categories[category] || 0) + 1
Counted(categories, category) ==
  [c \in DOMAIN categories \cup {category} |->
     (IF c \in DOMAIN categories THEN categories[c] ELSE 0)
       + (IF c = category THEN 1 ELSE 0)]

RECURSIVE CountActivities(_, _)
CountActivities(activities, categories) ==
  IF activities = <<>> THEN categories
  ELSE CountActivities(Tail(activities),
                       Counted(categories, CategoryOf(Head(activities))))

\* getCategoryBreakdown: an object with one key per category met
RECURSIVE CountDays(_, _)
CountDays(days, categories) ==
  IF days = <<>> THEN categories
  ELSE CountDays(Tail(days),
                 CountActivities(ActivitiesOrEmpty(Head(days)), categories))

getCategoryBreakdown(days) == CountDays(days, <<>>)

\* activities as the builder stores them and as other writers may: with and
\* without a cost, with and without a category
SummedActivities ==
  {[cost |-> 10, category |-> "food"], [cost |-> 25, category |-> "activity"],
   [category |-> "food"], [cost |-> 10]}

RECURSIVE ActivityListsUpTo(_)
ActivityListsUpTo(n) ==
  IF n = 0 THEN {<<>>}
  ELSE ActivityListsUpTo(n - 1) \cup [1..n -> SummedActivities]

SummedDays ==
  [title : {"d"}, activities : ActivityListsUpTo(MaxSummed)] \cup {[title |-> "d"]}

RECURSIVE DayListsUpTo(_)
DayListsUpTo(n) ==
  IF n = 0 THEN {<<>>}
  ELSE DayListsUpTo(n - 1) \cup [1..n -> SummedDays]

InitSummary ==
  /\ store = <<>>
  /\ trips = <<>>
  /\ added = 0
  /\ trip = NoTrip
  /\ itineraries = <<>>
  /\ loading = TRUE
  /\ pending = 0
  /\ error = ""
  /\ generated = 0
  /\ last = NoCall
  /\ \E days \in DayListsUpTo(MaxSummed) :
       mv = [pc |-> "start", days |-> days, totalCost |-> 0, viewTotal |-> 0,
             activityCount |-> 0, breakdown |-> <<>>]

\* the render of the trip summary: total cost (budget page and view page),
\* activity count and category breakdown
renderSummary ==
  /\ mv.pc = "start"
  /\ mv' = [mv EXCEPT !.pc = "shown",
                      !.totalCost = calculateTotalCost(mv.days),
                      !.viewTotal = getTotalCost(mv.days),
                      !.activityCount = getActivityCount(mv.days),
                      !.breakdown = getCategoryBreakdown(mv.days)]
  /\ UNCHANGED <<store, trips, added, trip, itineraries, loading, pending, error,
                 generated, last>>

SpecSummary == InitSummary /\ [][renderSummary]_vars

\* ------------------------------------------------------ PublicItineraryPage
\* the page mounted at /public/:tripId keeps the same four pieces of state
\* (trip, itineraries, loading, error); `mv.reported` is what the latest
\* trip snapshot said about the trip document
InitShare ==
  /\ store = <<>>
  /\ trips = <<>>
  /\ added = 0
  /\ trip = NoTrip
  /\ itineraries = <<>>
  /\ loading = TRUE
  /\ pending = 0
  /\ error = ""
  /\ generated = 0
  /\ last = NoCall
  /\ mv = [pc |-> "public", reported |-> "none"]

\* a variant of IsPublic that shows every trip
IsPublicAny(tripData) == tripData.isPublic \in BOOLEAN

\* tripData.isPublic
IsPublic(tripData) == tripData.isPublic

\* onSnapshot(doc(db, 'trips', tripId), ...) success callback
PublicTripSnapshot ==
  /\ IF tripId \in DOMAIN trips
       THEN IF IsPublic(trips[tripId])
              THEN trip' = tripId /\ UNCHANGED <<error, loading>>
              ELSE /\ error' = "This trip is private and cannot be viewed"
                   /\ loading' = FALSE
                   /\ UNCHANGED trip
       ELSE error' = "Trip not found" /\ loading' = FALSE /\ UNCHANGED trip
  /\ mv' = [mv EXCEPT !.reported =
                         IF tripId \notin DOMAIN trips THEN "missing"
                         ELSE IF trips[tripId].isPublic THEN "public"
                         ELSE "private"]
  /\ last' = [NoCall EXCEPT !.op = "publicTripSnapshot"]
  /\ UNCHANGED <<store, trips, added, itineraries, pending, generated>>

\* onSnapshot(collection(db, 'itineraries'), ...) success callback; the map
\* centre it sets is the constant the state starts with
PublicItinerariesSnapshot ==
  /\ \E data \in SnapshotOutcomes(store) : itineraries' = data
  /\ loading' = FALSE
  /\ pending' = 0
  /\ last' = [NoCall EXCEPT !.op = "publicSnapshot"]
  /\ UNCHANGED <<store, trips, added, trip, error, generated, mv>>

\* the page renders the itinerary, and the copy button, only past its three
\* early returns; while error is set it renders the error view
PublicShown == ~loading /\ error = "" /\ trip # NoTrip
PublicErrorView == ~loading /\ error # ""

\* addNewDay run by a builder session of the trip whose snapshot is current
remoteAddNewDay ==
  /\ tripId \in DOMAIN trips
  /\ added < MaxDays
  /\ added' = added + 1
  /\ \E newDay \in DayForms :
       /\ newDay.date # EmptyDate
       /\ newDay.title # ""
       /\ store' = [i \in DOMAIN store \cup {NewDayId(1)} |->
                      IF i = NewDayId(1)
                        THEN [AddedDay(newDay) EXCEPT
                                !.order = Cardinality(TripDays(store))]
                        ELSE store[i]]
  /\ last' = [NoCall EXCEPT !.op = "remoteAddNewDay", !.destDayId = NewDayId(1)]
  /\ Lagging
  /\ UNCHANGED <<trips, trip, itineraries, loading, error, generated, mv>>

\* useAuth() of a visitor who is not logged in: currentUser is null
NoUser == 0

\* newTripData: a private trip of the copying user
CopiedTrip(uid) == TripDoc(uid, FALSE)

\* a variant of CopiedDay that starts the copied day without activities
CopiedDayEmpty(itinerary, newTripId) ==
  [tripId |-> newTripId, day |-> NoDay, title |-> itinerary.title,
   date |-> itinerary.date, order |-> itinerary.order, activities |-> <<>>]

\* newItineraryData: date, title, activities and order of the displayed
\* day under the new trip's id; `day` is not copied
CopiedDay(itinerary, newTripId) ==
  [tripId |-> newTripId, day |-> NoDay, title |-> itinerary.title,
   date |-> itinerary.date, order |-> itinerary.order,
   activities |-> itinerary.activities]

\* copyTrip: without a user, navigate to /login; otherwise the trip
\* document, then one itinerary document per displayed day, each addDoc
\* awaited before the next; the first rejected addDoc ends the handler
\* with the error set (`created` day documents were added)
copyTrip ==
  /\ PublicShown
  /\ \E visitor \in {NoUser} \cup Uids :
       IF visitor = NoUser
         THEN /\ last' = [NoCall EXCEPT !.op = "copyTrip", !.navigate = "/login"]
              /\ UNCHANGED <<store, trips, added, error>>
         ELSE /\ Cardinality(DOMAIN trips) < MaxTrips + MaxCopies
              /\ \E tripAdded \in BOOLEAN, created \in 0..Len(itineraries) :
                   /\ tripAdded \/ created = 0
                   /\ trips' = IF tripAdded
                                  THEN [t \in DOMAIN trips \cup {NewTripId} |->
                                          IF t \in DOMAIN trips THEN trips[t]
                                          ELSE CopiedTrip(visitor)]
                                  ELSE trips
                   /\ store' = [id \in DOMAIN store \cup {NewDayId(i) : i \in 1..created} |->
                                  IF id \in DOMAIN store THEN store[id]
                                  ELSE CopiedDay(itineraries[id - added], NewTripId)]
                   /\ added' = added + created
                   /\ LET copied == tripAdded /\ created = Len(itineraries)
                      IN  /\ error' = IF copied THEN error ELSE "Error copying trip"
                          /\ last' = [NoCall EXCEPT
                                        !.op = "copyTrip",
                                        !.user = visitor,
                                        !.navigate = IF copied THEN "/trip/:id/builder"
                                                     ELSE "",
                                        !.failed = IF copied THEN {}
                                                   ELSE IF tripAdded
                                                     THEN {NewDayId(created + 1)}
                                                     ELSE {NewTripId}]
  /\ Lagging
  /\ UNCHANGED <<trip, itineraries, loading, generated, mv>>

\* the `updates` object of the day title input's onChange: the title typed
DayUpdates == {[title |-> "u"], [title |-> ""]}

\* updateDay(dayId, updates)
updateDay ==
  /\ BuilderRendered
  /\ pending <= MaxPending
  /\ \E dayId \in LocalDayIds, updates \in DayUpdates, accepted \in BOOLEAN :
       LET ok == accepted /\ dayId \in DOMAIN store
       IN  /\ store' = IF ok THEN [store EXCEPT ![dayId].title = updates.title]
                        ELSE store
           /\ error' = IF ok THEN error ELSE "Error updating day"
           /\ last' = [NoCall EXCEPT !.op = "updateDay", !.sourceDayId = dayId,
                                     !.failed = IF ok THEN {} ELSE {dayId}]
  /\ Lagging
  /\ UNCHANGED <<trips, added, trip, itineraries, loading, generated, mv>>

\* the listeners with their error callbacks beside the activity drops of the
\* builder and another session's additions
NextErrors ==
  \/ TripSnapshot
  \/ TripSnapshotError
  \/ ItinerariesSnapshot
  \/ ItinerariesSnapshotError
  \/ handleDragEndSameDay
  \/ handleDragEndCrossDay
  \/ remoteAddNewActivity

SpecErrors == InitDrag /\ [][NextErrors]_vars

\* every handler of the builder page beside the itineraries listener, which
\* here delivers each change of the store before the next handler is called
BuilderHandlers ==
  \/ handleDragEndDay
  \/ handleDragEndSameDay
  \/ handleDragEndCrossDay
  \/ handleDragEndCancelled
  \/ addNewDay
  \/ updateDay
  \/ deleteDay
  \/ addNewActivity
  \/ updateActivity
  \/ deleteActivity

\* no day or activity was created or deleted since the trip was filled
AsFilled ==
  /\ added = MaxDate
  /\ generated = MaxDate
  /\ DOMAIN store = 1..MaxDate
  /\ ActCount(store, DOMAIN store) = MaxDate

NextBuilder ==
  \/ ItinerariesSnapshot
  \/ pending = 0 /\ AsFilled /\ BuilderHandlers

SpecBuilder == InitDrag /\ [][NextBuilder]_vars

\* the add-activity modal is rendered while showAddActivity holds the id of
\* the day it was opened from, and its button calls
\* addNewActivity(showAddActivity): snapshots that arrive while it is open
\* may no longer contain that day
addNewActivityOpened ==
  /\ BuilderRendered
  /\ pending <= MaxPending
  /\ \E dayId \in 1..MaxDays, newActivity \in ActivityForms :
       AddNewActivityTo(dayId, newActivity)
  /\ WithinActs
  /\ Lagging
  /\ UNCHANGED <<trips, added, trip, itineraries, loading, mv>>

\* the two forms of the builder page, days being added and deleted
NextForms ==
  \/ ItinerariesSnapshot
  \/ addNewDay
  \/ deleteDay
  \/ addNewActivityOpened

SpecForms == InitDrag /\ [][NextForms]_vars

\* ----------------------------------------------------------------- MyTripsPage
\* query(collection(db, 'itineraries'), where('tripId', '==', tripId)) is a
\* Query of the modular 'firebase/firestore' API the page imports, which
\* has no get method (reading it takes getDocs): calling
\* itinerariesQuery.get() throws a TypeError
QueryHasGet == FALSE

\* the documents where('tripId', '==', id) selects
ItinerariesOf(st, id) == {d \in DOMAIN st : st[d].tripId = id}

\* handleDelete(tripId) from the trip list of the trip's owner: after the
\* confirmation, the query's documents are deleted and then the trip; an
\* exception on the way is caught and reported by an alert
handleDelete ==
  /\ \E id \in DOMAIN trips, confirmed \in BOOLEAN :
       IF ~confirmed
         THEN /\ UNCHANGED <<store, trips>>
              /\ last' = [NoCall EXCEPT !.op = "handleDelete", !.tripId = id]
         ELSE IF ~QueryHasGet
           THEN /\ UNCHANGED <<store, trips>>
                /\ last' = [NoCall EXCEPT !.op = "handleDelete", !.tripId = id,
                                          !.confirmed = TRUE, !.failed = {id}]
           ELSE \E accepted \in SUBSET ItinerariesOf(store, id), tripDeleted \in BOOLEAN :
                  LET allDeleted == accepted = ItinerariesOf(store, id)
                  IN  /\ store' = [d \in DOMAIN store \ accepted |-> store[d]]
                      /\ trips' = IF allDeleted /\ tripDeleted
                                     THEN [t \in DOMAIN trips \ {id} |-> trips[t]]
                                     ELSE trips
                      /\ last' = [NoCall EXCEPT
                                    !.op = "handleDelete", !.tripId = id,
                                    !.confirmed = TRUE,
                                    !.failed = IF allDeleted /\ tripDeleted THEN {}
                                               ELSE {id}]
  /\ Lagging
  /\ UNCHANGED <<added, trip, itineraries, loading, error, generated, mv>>

\* the public page of a public trip with two days, one created with the
\* trip and one added in the builder, each holding an activity, after the
\* page's first snapshots
SharedStore ==
  [id \in 1..2 |->
     IF id = 1 THEN FilledDay(1)
     ELSE [tripId |-> tripId, day |-> NoDay, title |-> "t",
           date |-> [kind |-> "str", v |-> 2], order |-> 1,
           activities |-> <<FilledActivity(2)>>]]

InitCopy ==
  /\ store = SharedStore
  /\ trips \in {[t \in {tripId} |-> TripDoc(uid, TRUE)] : uid \in Uids}
  /\ added = 2
  /\ trip = tripId
  /\ itineraries \in SnapshotOutcomes(store)
  /\ loading = FALSE
  /\ pending = 0
  /\ error = ""
  /\ generated = 2
  /\ last = [NoCall EXCEPT !.op = "publicSnapshot"]
  /\ mv = [pc |-> "public", reported |-> "public"]

NextCopy ==
  \/ PublicItinerariesSnapshot
  \/ copyTrip
  \/ remoteAddNewActivity
  \/ handleDelete

SpecCopy == InitCopy /\ [][NextCopy]_vars

NextShare ==
  \/ handleSubmit
  \/ PublicTripSnapshot
  \/ PublicItinerariesSnapshot
  \/ remoteAddNewDay
  \/ remoteAddNewActivity

SpecShare == InitShare /\ [][NextShare]_vars

\* ------------------------------------------------- App, AuthProvider, routes
\* the routes of App: the protected ones wrap their page in ProtectedRoute
ProtectedRoutes ==
  {"/dashboard", "/create-trip", "/my-trips", "/trip/:tripId/builder",
   "/trip/:tripId/view", "/search", "/budget/:tripId"}
PublicRoutes == {"/", "/login", "/signup", "/public/:tripId"}
Routes == ProtectedRoutes \cup PublicRoutes

\* a context value that is undefined (AuthProvider never stores it)
AuthUndefined == -1

\* a variant of ProtectedRoute that waits on undefined only
ProtectedRouteNoRedirect(user, children) ==
  IF user = AuthUndefined THEN "LoadingSpinner" ELSE children

\* ProtectedRoute({ children }) with the context's currentUser
ProtectedRoute(user, children) ==
  IF user = AuthUndefined THEN "LoadingSpinner"
  ELSE IF user = NoUser THEN "Navigate /login"
  ELSE children

\* the element of a route; a page is named by its route
Element(route, user) ==
  IF route \in ProtectedRoutes THEN ProtectedRoute(user, route) ELSE route

\* what App shows: AuthProvider renders its children only when not loading
Rendered ==
  IF mv.loading THEN "nothing" ELSE Element(mv.route, mv.currentUser)

\* the session: `authUser` is the user Firebase Auth holds (a persisted one
\* at start), `events` the auth states the observer has not been called
\* with yet, `awaiting` the users whose observer call is suspended at its
\* awaits; currentUser and loading are the AuthProvider's state
InitAuth ==
  /\ store = <<>>
  /\ trips = <<>>
  /\ added = 0
  /\ trip = NoTrip
  /\ itineraries = <<>>
  /\ loading = TRUE
  /\ pending = 0
  /\ error = ""
  /\ generated = 0
  /\ last = NoCall
  /\ \E user \in {NoUser} \cup Uids, route \in Routes :
       mv = [pc |-> "auth", authUser |-> user, events |-> <<user>>,
             awaiting |-> {}, currentUser |-> NoUser, loading |-> TRUE,
             route |-> route, logouts |-> 0]

AuthStep(next) ==
  /\ mv.pc = "auth"
  /\ mv' = next
  /\ UNCHANGED <<store, trips, added, trip, itineraries, loading, pending, error,
                 generated, last>>

\* the onAuthStateChanged observer is called with the next auth state: with
\* a user it suspends at getDoc, with null it sets the state at once
observerStart ==
  /\ mv.events # <<>>
  /\ LET user == Head(mv.events)
     IN  AuthStep(IF user = NoUser
                    THEN [mv EXCEPT !.events = Tail(@), !.currentUser = NoUser,
                                    !.loading = FALSE]
                    ELSE [mv EXCEPT !.events = Tail(@),
                                    !.awaiting = @ \cup {user}])

\* a suspended observer call resumes: setCurrentUser(user), setLoading(false);
\* when getDoc or setDoc throws, the call ends without setting either
observerResume ==
  \E user \in mv.awaiting, ok \in BOOLEAN :
    AuthStep(IF ok
               THEN [mv EXCEPT !.awaiting = @ \ {user}, !.currentUser = user,
                               !.loading = FALSE]
               ELSE [mv EXCEPT !.awaiting = @ \ {user}])

\* login(email, password) from the login page
login ==
  /\ Rendered = "/login"
  /\ Len(mv.events) < MaxEvents
  /\ \E user \in Uids :
       AuthStep([mv EXCEPT !.authUser = user, !.events = Append(@, user)])

\* the navbar's handleLogout, shown to a logged-in user: logout(), then
\* navigate('/')
handleLogout ==
  /\ ~mv.loading
  /\ mv.currentUser # NoUser
  /\ mv.logouts < MaxLogouts
  /\ Len(mv.events) < MaxEvents
  /\ AuthStep([mv EXCEPT !.authUser = NoUser, !.events = Append(@, NoUser),
                         !.route = "/", !.logouts = @ + 1])

\* the visitor opens a route by its address or a link
openRoute ==
  \E route \in Routes :
    /\ route # mv.route
    /\ AuthStep([mv EXCEPT !.route = route])

\* <Navigate to="/login" replace />
navigateToLogin ==
  /\ Rendered = "Navigate /login"
  /\ AuthStep([mv EXCEPT !.route = "/login"])

NextAuth ==
  \/ observerStart
  \/ observerResume
  \/ login
  \/ handleLogout
  \/ openRoute
  \/ navigateToLogin

SpecAuth == InitAuth /\ [][NextAuth]_vars

\* ------------------------------------------------------------------ claims
\* how often x occurs in a list
Count(list, x) == Cardinality({i \in DOMAIN list : list[i] = x})

SameMultiset(a, b) ==
  \A x \in Range(a) \cup Range(b) : Count(a, x) = Count(b, x)

\* a list without its element at zero-based index i
Without(list, i) ==
  [k \in 1..(Len(list) - 1) |-> IF k <= i THEN list[k] ELSE list[k + 1]]

\* the sequence the latest day reorder computed from the list it was given
LastReordered == MoveItem(itineraries, last.source, last.destination)

\* C1: the sequence a day reorder computes holds exactly the days it was
\* given: every day as often as before, none created, duplicated or lost.
C1_DayReorderKeepsTheDays ==
  last.op = "dragDay" =>
    /\ Len(LastReordered) = Len(itineraries)
    /\ SameMultiset(LastReordered, itineraries)

C1_Witness ==
  /\ last.op = "dragDay"
  /\ Len(itineraries) = 3
  /\ last.source # last.destination

\* C2: a day reorder puts the day that was at source.index at
\* destination.index, and the other days keep their relative order; with
\* three days, index 2 moved to index 0 gives D3, D1, D2.
C2_DayReorderMovesOneDay ==
  last.op = "dragDay" =>
    /\ LastReordered[last.destination + 1] = itineraries[last.source + 1]
    /\ Without(LastReordered, last.destination) = Without(itineraries, last.source)
    /\ (Len(itineraries) = 3 /\ last.source = 2 /\ last.destination = 0)
         => LastReordered = <<itineraries[3], itineraries[1], itineraries[2]>>
    /\ (last.failed = {})
         => store[itineraries[last.source + 1].id].order = last.destination

C2_Witness ==
  /\ last.op = "dragDay"
  /\ last.failed = {}
  /\ Len(itineraries) = 3
  /\ last.source = 2
  /\ last.destination = 0

\* the stored orders of the trip's days are exactly 0..n-1, each once
DenseOrders(st) ==
  /\ \A id \in TripDays(st) : st[id].order \in 0..(Cardinality(TripDays(st)) - 1)
  /\ \A a, b \in TripDays(st) : a # b => st[a].order # st[b].order

\* C3 as claimed: after a day reorder whose writes all succeeded, every day
\* of the trip has its position in the reordered sequence as its order, and
\* the stored orders are 0..n-1, dense and unique.
C3_EveryTripDayRenumbered ==
  (last.op = "dragDay" /\ last.failed = {}) =>
    /\ \A id \in TripDays(store) :
         \E i \in DOMAIN LastReordered :
           LastReordered[i].id = id /\ store[id].order = i - 1
    /\ DenseOrders(store)

\* C3 as amended: after a day reorder whose writes all succeeded, every day
\* of the list the handler reordered (the local itineraries) has its
\* zero-based position in the reordered sequence as its stored order, so
\* the orders of these days are 0..n-1, each once.
C3_ListedDaysRenumbered ==
  (last.op = "dragDay" /\ last.failed = {}) =>
    /\ \A i \in DOMAIN LastReordered :
         /\ LastReordered[i].id \in DOMAIN store
         /\ store[LastReordered[i].id].order = i - 1
    /\ {store[id].order : id \in LocalDayIds} = 0..(Len(itineraries) - 1)

C3_Witness ==
  /\ last.op = "dragDay"
  /\ last.failed = {}
  /\ Len(itineraries) = 3
  /\ last.source # last.destination
  /\ TripDays(store) = LocalDayIds

\* C4: after an addNewDay, deleteDay or day reorder that wrote, with no write
\* of the page rejected so far, the orders of the trip's days are 0..n-1,
\* no two the same.
C4_OrdersDenseAfterDayOperations ==
  ( /\ error = ""
    /\ last.failed = {}
    /\ \/ last.op = "addNewDay" /\ last.destDayId # 0
       \/ last.op = "deleteDay"
       \/ last.op = "dragDay" )
    => DenseOrders(store)

\* C5: the snapshot that follows a day reorder whose writes all succeeded
\* shows the days in the reordered sequence, which is the sequence of
\* ascending order values.
C5_SnapshotShowsReorderedDays ==
  [][ ( /\ last.op = "dragDay"
        /\ last.failed = {}
        /\ last'.op = "snapshot" )
      => /\ itineraries' = [i \in DOMAIN LastReordered |->
                              [LastReordered[i] EXCEPT !.order = i - 1]]
         /\ \A i, j \in DOMAIN itineraries' :
              i < j => itineraries'[i].order < itineraries'[j].order ]_vars

\* the activity lists the latest activity move read and the ones it stored
SourceBefore == FindDay(last.sourceDayId).activities
DestBefore == FindDay(last.destDayId).activities
SourceAfter == store[last.sourceDayId].activities
DestAfter == store[last.destDayId].activities

CrossDayMoved == last.op = "dragCrossDay" /\ last.failed = {}

\* C6: a cross-day move takes exactly one activity out of the source day's
\* list and puts exactly one into the destination day's list, so the two
\* lists together hold as many activities as before; A = X, Y and B = P, Q
\* with A[0] moved to B index 1 gives A = Y and B = P, X, Q.
C6_CrossDayMoveKeepsTheCount ==
  CrossDayMoved =>
    /\ Len(SourceAfter) = Len(SourceBefore) - 1
    /\ Len(DestAfter) = Len(DestBefore) + 1
    /\ Len(SourceAfter) + Len(DestAfter) = Len(SourceBefore) + Len(DestBefore)
    /\ SameMultiset(SourceAfter \o DestAfter, SourceBefore \o DestBefore)
    /\ (Len(SourceBefore) = 2 /\ Len(DestBefore) = 2
          /\ last.source = 0 /\ last.destination = 1)
         => /\ SourceAfter = <<SourceBefore[2]>>
            /\ DestAfter = <<DestBefore[1], SourceBefore[1], DestBefore[2]>>

C6_Witness ==
  /\ CrossDayMoved
  /\ Len(SourceBefore) = 2
  /\ Len(DestBefore) = 1

\* C7: in a cross-day move the activity stored at destination.index of the
\* destination day is the activity that was at source.index of the source
\* day, field for field, and all other activities of both days are stored
\* unchanged and in their former order.
C7_CrossDayMoveCarriesTheActivity ==
  CrossDayMoved =>
    /\ DestAfter[last.destination + 1] = SourceBefore[last.source + 1]
    /\ Without(DestAfter, last.destination) = DestBefore
    /\ SourceAfter = Without(SourceBefore, last.source)

C7_Witness ==
  /\ CrossDayMoved
  /\ Len(SourceBefore) = 2
  /\ Len(DestBefore) = 1
  /\ last.source = 0
  /\ last.destination = 1

\* C8: a same-day move stores the day's list with the activity at
\* source.index taken out and put back at destination.index, the others in
\* their former order; X, Y, Z with index 0 moved to index 2 gives Y, Z, X.
C8_SameDayMoveRepositions ==
  (last.op = "dragSameDay" /\ last.failed = {}) =>
    /\ SourceAfter[last.destination + 1] = SourceBefore[last.source + 1]
    /\ Without(SourceAfter, last.destination) = Without(SourceBefore, last.source)
    /\ (Len(SourceBefore) = 3 /\ last.source = 0 /\ last.destination = 2)
         => SourceAfter = <<SourceBefore[2], SourceBefore[3], SourceBefore[1]>>

C8_Witness ==
  /\ last.op = "dragSameDay"
  /\ last.failed = {}
  /\ Len(SourceBefore) = 3
  /\ last.source = 0
  /\ last.destination = 2

\* C9: a single-list move from s to d followed at once by the move from d
\* back to s gives the original list, element by element.
C9_MoveAndBackRestores ==
  mv.pc = "back" => mv.cur = mv.list

C9_Witness ==
  /\ mv.pc = "back"
  /\ Len(mv.list) = 3
  /\ mv.s # mv.d
  /\ mv.list[1] # mv.list[2]
  /\ mv.list[2] # mv.list[3]

\* C10: a single-list move whose source and destination index are the same
\* gives a list with the same elements in the same order.
C10_MoveToSamePlaceChangesNothing ==
  (mv.pc = "moved" /\ mv.s = mv.d) => mv.cur = mv.list

C10_Witness ==
  /\ mv.pc = "moved"
  /\ mv.s = mv.d
  /\ mv.s = 1
  /\ Len(mv.list) = 3

\* C11: a drop without destination makes handleDragEnd return at once: no
\* write is issued, so the store, the local itineraries and the error state
\* are what they were.
C11_CancelledDropChangesNothing ==
  [][ last'.op = "dragCancelled"
      => UNCHANGED <<store, itineraries, error>> ]_vars

C11_Witness ==
  /\ last.op = "dragCancelled"
  /\ last.source = 1
  /\ Len(itineraries) >= 2
  /\ ActCount(store, DOMAIN store) >= 1

\* the activity the latest activity move picked up
MovedActivity == SourceBefore[last.source + 1]

\* C12 as claimed: when exactly one write of a cross-day move fails, the
\* moved activity is in both days if the source-day write failed and in
\* neither day if the destination-day write failed.
C12_PartialFailureDuplicatesOrLoses ==
  last.op = "dragCrossDay" =>
    /\ (last.failed = {last.sourceDayId})
         => /\ MovedActivity \in Range(SourceAfter)
            /\ MovedActivity \in Range(DestAfter)
    /\ (last.failed = {last.destDayId})
         => /\ MovedActivity \notin Range(SourceAfter)
            /\ MovedActivity \notin Range(DestAfter)

\* C12 as amended: the two writes of a cross-day move land independently.
\* When only the source-day write fails, the stored source list stays as it
\* was and the destination list computed from the local snapshot is stored;
\* when only the destination-day write fails, the stored destination list
\* stays as it was and the source list without the activity is stored. So
\* with a current snapshot the activity is in both days in the first case,
\* and in neither day in the second if the source day held it once and the
\* destination day held no copy of it. Either way the error state is set.
C12_PartialFailureWritesOneDay ==
  [][ last'.op = "dragCrossDay" =>
        LET src == last'.sourceDayId
            dst == last'.destDayId
            moved == CrossDayMove(FindDay(src).activities, FindDay(dst).activities,
                                  last'.source, last'.destination)
            activity == FindDay(src).activities[last'.source + 1]
        IN  /\ (last'.failed = {src})
                 => /\ store'[src] = store[src]
                    /\ store'[dst].activities = moved.destActivities
                    /\ error' # ""
                    /\ (pending = 0)
                         => /\ activity \in Range(store'[src].activities)
                            /\ activity \in Range(store'[dst].activities)
            /\ (last'.failed = {dst})
                 => /\ store'[dst] = store[dst]
                    /\ store'[src].activities = moved.sourceActivities
                    /\ error' # ""
                    /\ ( /\ pending = 0
                          /\ Count(store[src].activities, activity) = 1
                          /\ activity \notin Range(store[dst].activities) )
                         => /\ activity \notin Range(store'[src].activities)
                            /\ activity \notin Range(store'[dst].activities) ]_vars

C12_Witness ==
  /\ last.op = "dragCrossDay"
  /\ last.failed = {last.sourceDayId}
  /\ pending = 1
  /\ MovedActivity \in Range(SourceAfter)
  /\ MovedActivity \in Range(DestAfter)

\* C13: when another session has added an activity to a day and the local
\* session, not having received it, reorders that day or moves an activity
\* out of or into it, the accepted write stores the list computed from the
\* local snapshot: the other session's activity is gone from the day, and
\* the error state is what it was.
C13_StaleWriteOverwritesRemoteEdit ==
  [][ ( /\ last.op = "remoteAddNewActivity"
        /\ last'.op \in {"dragSameDay", "dragCrossDay"}
        /\ last'.failed = {}
        /\ last.sourceDayId \in {last'.sourceDayId, last'.destDayId} )
      => LET day == last.sourceDayId
             theirs == store[day].activities[Len(store[day].activities)]
             moved == CrossDayMove(FindDay(last'.sourceDayId).activities,
                                   FindDay(last'.destDayId).activities,
                                   last'.source, last'.destination)
         IN  /\ theirs \notin Range(store'[day].activities)
             /\ store'[day].activities =
                  IF last'.op = "dragSameDay"
                    THEN MoveItem(FindDay(day).activities, last'.source,
                                  last'.destination)
                  ELSE IF day = last'.sourceDayId THEN moved.sourceActivities
                  ELSE moved.destActivities
             /\ error' = error
             /\ error' = "" ]_vars

C13_Witness ==
  /\ last.op = "dragSameDay"
  /\ last.failed = {}
  /\ error = ""
  /\ pending = 2
  /\ generated > MaxDate
  /\ \A id \in DOMAIN store :
       \A k \in DOMAIN store[id].activities : store[id].activities[k].id # generated
  /\ \A i \in DOMAIN itineraries :
       \A k \in DOMAIN itineraries[i].activities :
         itineraries[i].activities[k].id # generated

\* C14: when a write of a day reorder, a same-day reorder or a cross-day
\* move has failed, the error state holds that branch's message, so the
\* page shows the error instead of the builder.
C14_FailedDragSetsError ==
  (last.op \in {"dragDay", "dragSameDay", "dragCrossDay"} /\ last.failed # {}) =>
    /\ error # ""
    /\ error = (IF last.op = "dragDay" THEN "Error reordering days"
                ELSE IF last.op = "dragSameDay" THEN "Error reordering activities"
                ELSE "Error moving activity")
    /\ ~BuilderRendered

C14_Witness ==
  /\ last.op = "dragCrossDay"
  /\ last.failed = {last.destDayId}
  /\ error = "Error moving activity"

\* an index of the call lies outside the list it refers to (a cross-day drop
\* may be at the end of the destination list)
OutOfRange ==
  \/ mv.s >= Len(mv.list)
  \/ mv.d >= (IF mv.type = "crossDay" THEN Len(mv.dest) + 1 ELSE Len(mv.list))

\* C15: a day or activity move with an index outside its list signals an
\* error and writes nothing.
C15_OutOfRangeFailsFast ==
  (mv.pc = "dropped" /\ OutOfRange) =>
    /\ mv.signalled
    /\ mv.writes = <<>>

\* C16 as claimed: for every budget, 0 included, the status is 'over' when
\* spent >= budget, else 'warning' when spent >= 80% of budget, else 'good',
\* and the remaining amount is budget - spent.
C16_StatusForEveryBudget ==
  mv.pc = "shown" =>
    /\ mv.status = (IF mv.totalCost >= mv.budget THEN "over"
                    ELSE IF 5 * mv.totalCost >= 4 * mv.budget THEN "warning"
                    ELSE "good")
    /\ mv.remaining = mv.budget - mv.totalCost

\* C16 as amended: for a budget above 0 the status is 'over' when spent >=
\* budget, else 'warning' when spent >= 80% of budget, else 'good'; for a
\* budget of 0 or less the status is 'good' whatever was spent; the
\* remaining amount is budget - spent, which may be negative.
C16_StatusForPositiveBudget ==
  mv.pc = "shown" =>
    /\ mv.budget > 0 =>
         mv.status = (IF mv.totalCost >= mv.budget THEN "over"
                      ELSE IF 5 * mv.totalCost >= 4 * mv.budget THEN "warning"
                      ELSE "good")
    /\ mv.budget <= 0 => mv.status = "good"
    /\ mv.remaining = mv.budget - mv.totalCost

C16_Witness ==
  /\ mv.pc = "shown"
  /\ mv.budget = 10
  /\ mv.totalCost = 8
  /\ mv.status = "warning"
  /\ mv.remaining = 2

\* the positions <<day, activity>> of the activities of a list of days
Positions(days) ==
  UNION {{<<i, k>> : k \in DOMAIN ActivitiesOrEmpty(days[i])} : i \in DOMAIN days}

ActivityAt(days, pos) == ActivitiesOrEmpty(days[pos[1]])[pos[2]]

\* the sum of the costs at a set of positions, a missing cost being 0
RECURSIVE SumAt(_, _)
SumAt(days, positions) ==
  IF positions = {} THEN 0
  ELSE LET pos == CHOOSE x \in positions : TRUE
           a == ActivityAt(days, pos)
       IN  (IF "cost" \in DOMAIN a THEN a.cost ELSE 0)
             + SumAt(days, positions \ {pos})

TwoDayScenario ==
  <<[title |-> "d", activities |-> <<[cost |-> 10, category |-> "food"]>>],
    [title |-> "d", activities |-> <<[cost |-> 25, category |-> "activity"]>>]>>

\* C17: the total cost of a trip, as the budget page and as the view page
\* compute it, is the sum of the costs of all activities of all days, a
\* missing cost and a day without activity list counting as 0; two days
\* with one activity each, costing 10 and 25, give 35.
C17_TotalCostIsTheSum ==
  mv.pc = "shown" =>
    /\ mv.totalCost = SumAt(mv.days, Positions(mv.days))
    /\ mv.viewTotal = SumAt(mv.days, Positions(mv.days))
    /\ mv.days = TwoDayScenario => mv.totalCost = 35 /\ mv.viewTotal = 35

C17_Witness ==
  /\ mv.pc = "shown"
  /\ Len(mv.days) = 2
  /\ "activities" \notin DOMAIN mv.days[1]
  /\ Len(ActivitiesOrEmpty(mv.days[2])) = 2
  /\ "cost" \notin DOMAIN mv.days[2].activities[1]
  /\ mv.days[2].activities[2] = [cost |-> 25, category |-> "activity"]
  /\ mv.totalCost = 25

\* the label an activity is counted under, and the sum of a breakdown's
\* counts
LabelAt(days, pos) ==
  IF "category" \in DOMAIN ActivityAt(days, pos)
    THEN ActivityAt(days, pos).category
    ELSE "activity"

RECURSIVE SumCounts(_, _)
SumCounts(categories, keys) ==
  IF keys = {} THEN 0
  ELSE LET c == CHOOSE x \in keys : TRUE
       IN  categories[c] + SumCounts(categories, keys \ {c})

\* C18: the category breakdown has one entry per category that occurs, its
\* value the number of the trip's activities with that category, activities
\* without category counting under 'activity'; the counts add up to the
\* activity count, which is the sum of the lengths of the days' lists. Two
\* days with a 'food' and an 'activity' activity give food 1, activity 1 and
\* an activity count of 2.
C18_BreakdownCountsActivities ==
  mv.pc = "shown" =>
    /\ DOMAIN mv.breakdown = {LabelAt(mv.days, pos) : pos \in Positions(mv.days)}
    /\ \A c \in DOMAIN mv.breakdown :
         mv.breakdown[c] =
           Cardinality({pos \in Positions(mv.days) : LabelAt(mv.days, pos) = c})
    /\ mv.activityCount = Cardinality(Positions(mv.days))
    /\ SumCounts(mv.breakdown, DOMAIN mv.breakdown) = mv.activityCount
    /\ mv.days = TwoDayScenario
         => /\ mv.breakdown = [c \in {"food", "activity"} |-> 1]
            /\ mv.activityCount = 2

C18_Witness ==
  /\ mv.pc = "shown"
  /\ mv.days = <<[title |-> "d"],
                 [title |-> "d",
                  activities |-> <<[cost |-> 10],
                                   [cost |-> 25, category |-> "activity"]>>]>>
  /\ mv.breakdown = [c \in {"activity"} |-> 2]
  /\ mv.activityCount = 2

\* the activities of a list other than those with the given id, in order
Others(activities, activityId) ==
  SelectSeq(activities, LAMBDA activity : activity.id # activityId)

\* an accepted call of the given handler has just written a day
Wrote(op) ==
  /\ last'.op = op
  /\ last'.sourceDayId # 0
  /\ last'.failed = {}

\* C19: the array addNewActivity writes is the day's list with the new
\* activity after its last element; the array updateActivity writes has the
\* day's list's length, differs from it only at the activity with the given
\* id, and there only in the updated fields; the array deleteActivity writes
\* has no activity with the given id; in all three every other activity keeps
\* its content and its place relative to the others.
C19_ActivityEditsTouchOneActivity ==
  [][LET read == FindDay(last'.sourceDayId).activities
         written == store'[last'.sourceDayId].activities
         activityId == last'.activityId
     IN  /\ Wrote("addNewActivity") =>
              /\ Len(written) = Len(read) + 1
              /\ SubSeq(written, 1, Len(read)) = read
              /\ written[Len(written)].id = generated'
              /\ \A i \in DOMAIN read : read[i].id # generated'
         /\ Wrote("updateActivity") =>
              /\ Len(written) = Len(read)
              /\ Others(written, activityId) = Others(read, activityId)
              /\ \A i \in DOMAIN read :
                   /\ written[i].id = read[i].id
                   /\ read[i].id # activityId => written[i] = read[i]
              /\ \E updates \in ActivityUpdates :
                   \A i \in DOMAIN read :
                     read[i].id = activityId =>
                       /\ DOMAIN written[i] = DOMAIN read[i]
                       /\ \A f \in DOMAIN read[i] :
                            written[i][f] = IF f \in DOMAIN updates THEN updates[f]
                                            ELSE read[i][f]
         /\ Wrote("deleteActivity") =>
              /\ \A i \in DOMAIN written : written[i].id # activityId
              /\ Others(written, activityId) = Others(read, activityId)
              /\ Len(written) = Len(read) -
                   Cardinality({i \in DOMAIN read : read[i].id = activityId})]_vars

C19_Witness ==
  /\ last.op = "updateActivity"
  /\ last.failed = {}
  /\ last.activityId = 2
  /\ Len(store[last.sourceDayId].activities) = 3
  /\ store[last.sourceDayId].activities[1].name = "a"
  /\ store[last.sourceDayId].activities[2].name = "b"
  /\ store[last.sourceDayId].activities[3].name = "a"

\* the page's trip document exists and belongs to another user
ForeignTrip ==
  /\ tripId \in DOMAIN trips
  /\ trips[tripId].userId # currentUser.uid

\* the handlers the builder's editing controls call
EditingHandlers ==
  {"dragDay", "dragSameDay", "dragCrossDay", "dragCancelled", "addNewDay",
   "deleteDay", "addNewActivity", "updateActivity", "deleteActivity"}

\* C20: the trip state is set only to a trip document whose userId is the
\* current user's uid; when the trip belongs to another user the trip
\* listener sets the permission error, the builder is never rendered and no
\* editing handler has run.
C20_OnlyTheOwnerEdits ==
  /\ trip # NoTrip =>
       /\ trip \in DOMAIN trips
       /\ trips[trip].userId = currentUser.uid
  /\ ForeignTrip =>
       /\ trip = NoTrip
       /\ ~BuilderRendered
       /\ last.op \notin EditingHandlers
       /\ last.op = "tripSnapshot" =>
            /\ error = "You do not have permission to edit this trip"
            /\ ~loading

C20_Witness ==
  /\ ForeignTrip
  /\ TripDays(store) # {}
  /\ last.op = "snapshot"
  /\ itineraries # <<>>
  /\ error = "You do not have permission to edit this trip"
  /\ trip = NoTrip

\* C21: the public page shows the itinerary only while the latest trip
\* snapshot reported the trip as public; once a trip snapshot reports the
\* trip as private or missing the page is past loading with an error set,
\* and shows the error view instead of the itinerary.
C21_ShownOnlyWhilePublic ==
  /\ PublicShown => mv.reported = "public"
  /\ mv.reported \in {"private", "missing"} =>
       /\ PublicErrorView
       /\ ~PublicShown

C21_Witness ==
  /\ mv.reported = "private"
  /\ last.op = "publicSnapshot"
  /\ itineraries # <<>>
  /\ error = "This trip is private and cannot be viewed"

\* the documents a step has added to the two collections
NewTrips == DOMAIN trips' \ DOMAIN trips
NewDays == DOMAIN store' \ DOMAIN store

\* the place of a new day among the new days, by document id
PlaceOf(id) == Cardinality({other \in NewDays : other <= id})

C23_ConfirmedDeleteRemovesTripAndDays ==
  [][last'.op = "handleDelete" =>
       IF last'.confirmed
         THEN /\ last'.tripId \notin DOMAIN trips'
              /\ ItinerariesOf(store', last'.tripId) = {}
         ELSE /\ trips' = trips
              /\ store' = store]_vars

\* C24: a handleSubmit call with a valid form whose writes are all accepted
\* adds exactly one itinerary day for each calendar date from startDate to
\* endDate inclusive, numbered 1..n in date order, each with an empty
\* activity list; a call with an invalid form adds no document.
C24_OneDayPerCalendarDate ==
  [][last'.op = "handleSubmit" =>
       IF last'.message = "" /\ last'.failed = {}
         THEN LET first == last'.startDate.day
                  n == last'.endDate.day - first + 1
              IN  /\ Cardinality(NewTrips) = 1
                  /\ Cardinality(NewDays) = n
                  /\ \A k \in 1..n :
                       \E id \in NewDays :
                         /\ store'[id].day = k
                         /\ store'[id].date.v = first + k - 1
                         /\ store'[id].activities = <<>>
                         /\ store'[id].tripId \in NewTrips
         ELSE last'.failed = {} => NewTrips = {} /\ NewDays = {}]_vars

TripTotals(st) ==
  LET days == DocsFrom(st, TripDays(st))
  IN  [totalCost |-> getTotalCost(days),
       activityCount |-> getActivityCount(days),
       breakdown |-> getCategoryBreakdown(days)]

\* an activity move has just had all its writes accepted
ActivityMoved ==
  /\ last'.op \in {"dragSameDay", "dragCrossDay"}
  /\ last'.failed = {}

\* the local lists of the days the move writes are the stored ones
MovedFromCurrentLists ==
  \A dayId \in {last'.sourceDayId, last'.destDayId} :
    /\ dayId \in DOMAIN store
    /\ FindDay(dayId).activities = store[dayId].activities

\* C26 as stated: every activity move whose writes all succeed leaves the
\* trip's total cost, activity count and category breakdown unchanged.
C26_EveryMoveKeepsTheTotals ==
  [][ActivityMoved => TripTotals(store') = TripTotals(store)]_vars

\* C26: an activity move whose writes all succeed, computed from local lists
\* that equal the stored lists of the days it writes, leaves the trip's total
\* cost, activity count and category breakdown unchanged.
C26_CurrentMoveKeepsTheTotals ==
  [][(ActivityMoved /\ MovedFromCurrentLists)
       => TripTotals(store') = TripTotals(store)]_vars

C26_Witness ==
  /\ last.op = "dragCrossDay"
  /\ last.failed = {}
  /\ pending = 1
  /\ store[1].activities = <<>>
  /\ Len(store[2].activities) = 2
  /\ TripTotals(store) =
       [totalCost |-> 35, activityCount |-> 2,
        breakdown |-> [c \in {"food", "activity"} |-> 1]]

\* the calls of the builder's handlers
HandlerOps ==
  {"dragDay", "dragSameDay", "dragCrossDay", "dragCancelled", "addNewDay",
   "updateDay", "deleteDay", "addNewActivity", "updateActivity",
   "deleteActivity"}

\* C27: no handler of the builder changes the local itineraries state, which
\* changes only in a step of the itineraries listener: a drop whose writes
\* are accepted changes the store and not the local list, and a drop with a
\* rejected write leaves the local list as it was before the drop.
C27_OnlyTheSnapshotChangesTheLocalList ==
  [][/\ itineraries' # itineraries => last'.op = "snapshot"
     /\ last'.op \in HandlerOps => itineraries' = itineraries]_vars

C27_Witness ==
  /\ last.op = "dragSameDay"
  /\ last.failed = {}
  /\ last.source # last.destination
  /\ store[last.sourceDayId].activities # FindDay(last.sourceDayId).activities
  /\ pending = 1

\* C28: an activity move changes no document but the source day's and, for a
\* cross-day move, the destination day's, and of those nothing but the
\* `activities` field: no document appears or disappears and every day keeps
\* its tripId, day number, title, date and order.
C28_MoveWritesOnlyActivities ==
  [][last'.op \in {"dragSameDay", "dragCrossDay"} =>
       /\ DOMAIN store' = DOMAIN store
       /\ trips' = trips
       /\ \A id \in DOMAIN store :
            /\ id \notin {last'.sourceDayId, last'.destDayId}
                 => store'[id] = store[id]
            /\ last'.op = "dragSameDay" /\ id # last'.sourceDayId
                 => store'[id] = store[id]
            /\ [store'[id] EXCEPT !.activities = store[id].activities] = store[id]]_vars

C28_Witness ==
  /\ last.op = "dragCrossDay"
  /\ last.failed = {}
  /\ last.sourceDayId = 2
  /\ store[1].order = 1
  /\ store[2].order = 0
  /\ store[2].activities = <<>>
  /\ Len(store[1].activities) = 2

\* the page shows the error view
ErrorView == ~loading /\ error # ""

\* C29: the builder's error state is absorbing: once it is non-empty no
\* listener or handler step empties it, and from then on the page shows the
\* error view and not the builder, also after later snapshots that succeed.
C29_ErrorIsAbsorbing ==
  [][/\ error # "" => error' # ""
     /\ error' # "" => (ErrorView' /\ ~BuilderRendered')]_vars

C29_Witness ==
  /\ error = "Error moving activity"
  /\ last.op = "snapshot"
  /\ pending = 0
  /\ itineraries \in SnapshotOutcomes(store)
  /\ ActCount(store, DOMAIN store) = 3
  /\ ErrorView

\* a call that returns before its try block leaves the store, the error and
\* the form as they were
Returned ==
  /\ store' = store
  /\ added' = added
  /\ generated' = generated
  /\ error' = error
  /\ last'.failed = {}
  /\ ~last'.formReset

\* C30: addNewDay with an empty date or an empty title, and addNewActivity
\* with an empty name, an empty start time or a day that is not in the local
\* itineraries, issue no write and leave the store, the form and the error
\* state unchanged.
C30_EmptyFormsWriteNothing ==
  [][/\ \A newDay \in DayForms :
          (newDay.date = EmptyDate \/ newDay.title = "") /\ AddNewDayWith(newDay)
            => Returned
     /\ \A dayId \in 1..MaxDays, newActivity \in ActivityForms :
          /\ \/ newActivity.name = ""
             \/ newActivity.startTime = ""
             \/ ~HasDay(dayId)
          /\ AddNewActivityTo(dayId, newActivity)
          => Returned]_vars

C30_Witness ==
  /\ last.op = "addNewActivity"
  /\ last.sourceDayId = 1
  /\ ~HasDay(1)
  /\ 1 \notin DOMAIN store
  /\ HasDay(2)
  /\ pending = 0
  /\ ~last.formReset
  /\ last.failed = {}
  /\ error = ""

====
